---- MODULE Spec2Model ----
(***************************************************************************)
(* RecuperaBit: the logical file model and tree rebuilder                  *)
(* (recuperabit/fs/core_types.py), the partition merge                     *)
(* (recuperabit/utils.py), the scanner operations that insert files into a *)
(* partition (recuperabit/fs/ntfs.py) and the sparse list with its         *)
(* approximate matcher (recuperabit/logic.py).                             *)
(***************************************************************************)
EXTENDS Integers, Sequences, FiniteSets, TLC

VARIABLES
    heap,    \* the File objects, by identity: heap[id] is the object's fields
    parts,   \* the two Partition objects, "part" and "piece"
    op,      \* the operation that produced this state
    pre,     \* the heap, the files of the partitions and the operation as
             \* they were before that operation (nothing after add_file)
    sl,      \* a SparseList object: [keys, elements, default]
    am,      \* one call of approximate_matching: its arguments and result
    rl,      \* one call of runlist_unpack: its argument and result
    sc,      \* an NTFSScanner object: its tables and the pairs fed to it
    gc,      \* one call of get_content: the file, the record and the result
    rd,      \* one call of sectors: the image, the arguments and the result
    bn,      \* one call of best_name: the entries and the result
    gp,      \* one run of get_partitions: its stage and partitioned_files
    fx,      \* one call of _apply_fixup_values: the header, the entry and the result
    mr,      \* one run of the $MFTMirr repair loop of get_partitions
    cl,      \* the loop of get_partitions over found_file: the records read and the map
    fb,      \* one call of find_boundary: its inputs, the results and what it returns
    ci       \* one iterator that content_iterator returned: its inputs and where it stands

\* the state of the NTFS plug-in's functions
ntvars == <<rl, sc, gc, rd, bn, gp, fx, mr, cl, fb, ci>>

vars == <<heap, parts, op, pre, sl, am, ntvars>>

-----------------------------------------------------------------------------
(* Bounds of the model *)

MaxFiles == 2       \* File objects handed to add_file in one run
MaxRebuilds == 2    \* rebuild() calls on one partition in one run
MaxTreeFiles == 3   \* File objects handed to add_file in one run of SpecTree
MaxPieceFiles == 1  \* files of the partition that merge takes from, in SpecTree
MaxKey == 2         \* largest key of a SparseList in SpecSparse
MaxText == 3        \* largest key of the text in SpecMatch
MaxPattern == 1     \* largest key of the pattern in SpecMatch
MaxStop == 2        \* largest stop in SpecMatch
MaxK == 2           \* largest minimum support in SpecMatch
MaxRunlist == 7     \* bytes of a runlist in SpecRunlist
MaxRuns == 2        \* runs of an encoded runlist
MaxFeeds == 3       \* feed calls on one scanner
MaxDatas == 2       \* $DATA attributes of the record that get_content reads
MaxImage == 3       \* bytes of the image that sectors reads
MaxEntries == 3     \* (namespace, name) entries handed to best_name
MaxSectors == 3     \* sectors of the record handed to _apply_fixup_values
MaxIndx == 3        \* largest key of indx_list in SpecBoundary
MaxMirrorRecords == 2 \* valid records at the places of one $MFTMirr
MaxFragments == 2   \* $DATA attributes handed to content_iterator
MaxEntriesOfRun == 2 \* entries of the runlist of one of them

-----------------------------------------------------------------------------
(* Values *)

\* Python's None where an integer id is expected (File.parent, Partition.root)
None == -99

\* Partition.root_id of an NTFS partition
root_id == 5

\* index of the LostFiles directory, and the parent sentinel of orphans
lost_index == -1

PartNames == {"part", "piece"}

\* '_%03d' % i
Suffix(i) ==
    "_" \o (IF i < 10 THEN "00" ELSE IF i < 100 THEN "0" ELSE "") \o ToString(i)

\* File.__init__: a new File object
NewFile(index, name, is_directory, is_ghost, parent) ==
    [index |-> index, name |-> name, is_directory |-> is_directory,
     is_ghost |-> is_ghost, parent |-> parent,
     children |-> {}, children_names |-> {}]

\* Partition.__init__: an empty partition whose lost directory is heap[lostId]
NewPartition(lostId) ==
    [files |-> <<>>, lost |-> lostId, root |-> None, alive |-> TRUE,
     err |-> FALSE, nreb |-> 0, mirrored |-> FALSE]

-----------------------------------------------------------------------------
(* Python dict, kept in insertion order: a sequence of <<key, object id>> *)

DictKeys(d) == {d[i][1] : i \in DOMAIN d}

DictGet(d, k) == d[CHOOSE i \in DOMAIN d : d[i][1] = k][2]

DictValues(d) == {d[i][2] : i \in DOMAIN d}

\* d[k] = v: an existing key keeps its place, a new key goes last
DictSet(d, k, v) ==
    IF k \in DictKeys(d)
    THEN [i \in DOMAIN d |-> IF d[i][1] = k THEN <<k, v>> ELSE d[i]]
    ELSE Append(d, <<k, v>>)

-----------------------------------------------------------------------------
(* File.add_child *)

RECURSIVE RenameLoop(_, _, _)
\* while node.name in self.children_names: node.name = original + '_%03d' % i
RenameLoop(original, names, i) ==
    LET candidate == original \o Suffix(i)
    IN IF candidate \in names THEN RenameLoop(original, names, i + 1)
       ELSE candidate

\* the name add_child leaves on the node: renamed only on a clash
ChildName(name, names) ==
    IF name \in names THEN RenameLoop(name, names, 0) ELSE name

\* add_child(self, node) on heap h: the heap afterwards
add_child(h, self, node) ==
    IF node \in h[self].children THEN h
    ELSE LET nm == ChildName(h[node].name, h[self].children_names)
             h1 == [h EXCEPT ![node].name = nm]
         IN [h1 EXCEPT ![self].children = @ \cup {node},
                       ![self].children_names = @ \cup {nm}]

-----------------------------------------------------------------------------
(* Partition.add_file, Partition.set_root, Partition.rebuild *)

\* self.files[node.index] = node
add_file(files, h, node) == DictSet(files, h[node].index, node)

\* the ghost directory without set_parent(-1)
GhostParent_NoSetParent(parent_id) ==
    NewFile(parent_id, "Dir_" \o ToString(parent_id), TRUE, TRUE, None)

\* the ghost directory rebuild synthesizes for a parent id that is not in files:
\* File(parent_id, 'Dir_' + str(parent_id), 0, is_directory=True, is_ghost=True)
\* followed by set_parent(-1)
GhostParent(parent_id) ==
    NewFile(parent_id, "Dir_" \o ToString(parent_id), TRUE, TRUE, lost_index)

\* the ghost root rebuild synthesizes when files has no root_id
GhostRoot == NewFile(root_id, "Root", TRUE, TRUE, None)

\* One pass of the loop body of rebuild for the key `identifier`.
\* st = [heap, part]; a TypeError of set_root is part.err = TRUE.
RebuildStep(st, identifier) ==
    LET h == st.heap
        P == st.part
        node == DictGet(P.files, identifier)
    IN IF h[node].index = root_id
       THEN IF ~h[node].is_directory
            THEN [st EXCEPT !.part.err = TRUE]
            ELSE [heap |-> [h EXCEPT ![node].parent = None,
                                     ![node].name = "Root"],
                  part |-> [P EXCEPT !.root = node]]
       ELSE LET parent_id == h[node].parent
                exists == parent_id # None
                valid == parent_id \in DictKeys(P.files)
            IN IF exists /\ valid
               THEN [st EXCEPT
                       !.heap = add_child(h, DictGet(P.files, parent_id), node)]
               ELSE IF exists /\ ~valid
               THEN LET parent_node == Len(h) + 1
                        h1 == Append(h, GhostParent(parent_id))
                        h2 == add_child(h1, P.lost, parent_node)
                    IN [heap |-> add_child(h2, parent_node, node),
                        part |-> [P EXCEPT
                                   !.files = DictSet(@, parent_id, parent_node)]]
               ELSE LET h1 == [h EXCEPT ![node].parent = lost_index]
                    IN [st EXCEPT !.heap = add_child(h1, P.lost, node)]

RECURSIVE RebuildLoop(_, _)
\* for identifier in list(self.files): ...   (stops at a raised TypeError)
RebuildLoop(st, identifiers) ==
    IF identifiers = <<>> \/ st.part.err THEN st
    ELSE RebuildLoop(RebuildStep(st, Head(identifiers)), Tail(identifiers))

\* rebuild(self) on [heap, part]: the ghost root if files has no root_id, then
\* the loop over the keys present when the loop starts
rebuild(st) ==
    LET h == st.heap
        P == st.part
        st1 == IF root_id \in DictKeys(P.files) THEN st
               ELSE [heap |-> Append(h, GhostRoot),
                     part |-> [P EXCEPT !.files = Append(@, <<root_id, Len(h) + 1>>)]]
        identifiers == [i \in DOMAIN st1.part.files |-> st1.part.files[i][1]]
    IN RebuildLoop(st1, identifiers)

-----------------------------------------------------------------------------
(* utils.merge *)

\* merge that never replaces an entry of part
MergeTakes_AbsentOnly(h, dest, index) == index \notin DictKeys(dest)

\* index not in part.files or part.files[index].is_ghost
MergeTakes(h, dest, index) ==
    \/ index \notin DictKeys(dest)
    \/ h[DictGet(dest, index)].is_ghost

RECURSIVE MergeLoop(_, _, _, _)
\* for index in piece.files: if index not in part.files or
\*     part.files[index].is_ghost: part.add_file(piece.files[index])
MergeLoop(h, dest, src, i) ==
    IF i > Len(src) THEN dest
    ELSE LET index == src[i][1]
             take == MergeTakes(h, dest, index)
         IN MergeLoop(h, IF take THEN add_file(dest, h, src[i][2]) ELSE dest,
                      src, i + 1)

\* merge(part, piece): the files of part afterwards
merge(h, partFiles, pieceFiles) == MergeLoop(h, partFiles, pieceFiles, 1)

-----------------------------------------------------------------------------
(* Inputs of the partition operations *)

Indexes == {5, 6, 7}
ParentIds == {None, 5, 6}
Names == {"x", "x_000"}
\* (is_directory, is_ghost): a file, a directory, a ghost that is no directory
Kinds == {<<FALSE, FALSE>>, <<TRUE, FALSE>>, <<FALSE, TRUE>>}

NoCrash == \A p \in PartNames : ~parts[p].err

\* files handed to add_file so far: every object but the two lost directories
\* and the ghosts rebuild synthesized
UserFiles == Len(heap) - 2 - Cardinality({i \in DOMAIN heap :
                 heap[i].is_ghost /\ heap[i].is_directory /\ i > 2})

\* nothing recorded about the state before
NoPre == [heap |-> <<>>, files |-> [p \in PartNames |-> <<>>],
          op |-> [kind |-> "none", p |-> "part"]]

\* the state before an operation, as the next state records it
Before == [heap |-> heap, files |-> [p \in PartNames |-> parts[p].files],
           op |-> op]

-----------------------------------------------------------------------------
(* SparseList: keys is a list, elements a dict from key to value *)

RECURSIVE sorted(_)
\* sorted(data): the keys in ascending order
sorted(S) ==
    IF S = {} THEN <<>>
    ELSE LET m == CHOOSE x \in S : \A y \in S : x <= y
         IN <<m>> \o sorted(S \ {m})

\* SparseList(data, default): every entry of data is stored
SparseList(data, default) ==
    [keys |-> sorted(DOMAIN data), elements |-> data, default |-> default]

\* dict without the key k
DictDel(d, k) == [x \in (DOMAIN d) \ {k} |-> d[x]]

\* dict with d[k] = v
DictPut(d, k, v) == [x \in (DOMAIN d) \cup {k} |-> IF x = k THEN v ELSE d[x]]

\* len(self): the last key plus one
SparseLen(self) ==
    IF Len(self.keys) = 0 THEN 0 ELSE self.keys[Len(self.keys)] + 1

\* self[index]
SparseGet(self, index) ==
    IF index \in DOMAIN self.elements THEN self.elements[index] ELSE self.default

\* bisect.bisect_left(keys, index), 0-based
bisect_left(keys, index) == Cardinality({i \in DOMAIN keys : keys[i] < index})

\* del keys[pos], pos 0-based
ListDel(keys, pos) ==
    [i \in 1..(Len(keys) - 1) |-> IF i <= pos THEN keys[i] ELSE keys[i + 1]]

\* bisect.insort(keys, index): after the entries that are <= index
insort(keys, index) ==
    LET pos == Cardinality({i \in DOMAIN keys : keys[i] <= index})
    IN [i \in 1..(Len(keys) + 1) |->
          IF i <= pos THEN keys[i] ELSE IF i = pos + 1 THEN index ELSE keys[i - 1]]

\* self[index] = item
SparseSet(self, index, item) ==
    IF item = self.default
    THEN IF index \in DOMAIN self.elements
         THEN [self EXCEPT !.elements = DictDel(@, index),
                           !.keys = ListDel(@, bisect_left(@, index))]
         ELSE self
    ELSE [self EXCEPT !.keys = IF index \in DOMAIN self.elements
                               THEN @ ELSE insort(@, index),
                      !.elements = DictPut(@, index, item)]

\* wipe_interval without the branch for bottom > top
Kept_NoWrap(bottom, top, k) == ~(bottom <= k /\ k < top)

\* the keys wipe_interval(bottom, top) keeps
Kept(bottom, top, k) ==
    IF bottom > top THEN top <= k /\ k < bottom
    ELSE ~(bottom <= k /\ k < top)

\* self.wipe_interval(bottom, top)
wipe_interval(self, bottom, top) ==
    LET new_keys == {self.keys[i] : i \in {j \in DOMAIN self.keys :
                                             Kept(bottom, top, self.keys[j])}}
        gone == {self.keys[i] : i \in {j \in DOMAIN self.keys :
                                         ~Kept(bottom, top, self.keys[j])}}
    IN [self EXCEPT !.elements = [x \in (DOMAIN @) \ gone |-> @[x]],
                    !.keys = sorted(new_keys)]

NoData == [x \in {} |-> None]
IdleSparse == SparseList(NoData, None)
IdleMatch == [phase |-> "idle"]

\* no call of runlist_unpack
IdleRunlist == [runlist |-> <<>>, pieces |-> <<>>, done |-> FALSE]

\* no call of get_content
IdleContent == [phase |-> "idle"]

\* no call of sectors
IdleSectors == [phase |-> "idle"]

\* no call of best_name
IdleBestName == [phase |-> "idle"]

\* no run of get_partitions
IdlePartitions == [stage |-> "idle"]

\* no call of _apply_fixup_values
IdleFixup == [phase |-> "idle"]

\* no run of the $MFTMirr repair loop
IdleMirror == [stage |-> "idle"]

\* no run of the loop over found_file
IdleCluster == [stage |-> "idle"]

\* no call of find_boundary
IdleBoundary == [phase |-> "idle"]

\* no iterator of content_iterator
IdleIterator == [phase |-> "idle"]

\* no NTFSScanner
IdleScanner == [found_boot |-> <<>>]

\* the NTFS plug-in's functions are not in use
IdleNtfs ==
    /\ rl = IdleRunlist
    /\ sc = IdleScanner
    /\ gc = IdleContent
    /\ rd = IdleSectors
    /\ bn = IdleBestName
    /\ gp = IdlePartitions
    /\ fx = IdleFixup
    /\ mr = IdleMirror
    /\ cl = IdleCluster
    /\ fb = IdleBoundary
    /\ ci = IdleIterator

-----------------------------------------------------------------------------
(* The partition operations as actions *)

InitPart ==
    /\ IdleNtfs
    /\ heap = << NewFile(lost_index, "LostFiles", TRUE, TRUE, None),
                 NewFile(lost_index, "LostFiles", TRUE, TRUE, None) >>
    /\ parts = [p \in PartNames |-> NewPartition(IF p = "part" THEN 1 ELSE 2)]
    /\ op = [kind |-> "init", p |-> "part"]
    /\ pre = NoPre
    /\ sl = IdleSparse
    /\ am = IdleMatch

\* p.add_file(File(index, name, ...)) with the parent set by set_parent
AddFile(p) ==
    /\ NoCrash /\ parts[p].alive
    /\ UserFiles < MaxFiles
    /\ \E index \in Indexes, name \in Names, parent \in ParentIds, kind \in Kinds :
         LET node == Len(heap) + 1
             h1 == Append(heap, NewFile(index, name, kind[1], kind[2], parent))
         IN /\ heap' = h1
            /\ parts' = [parts EXCEPT ![p].files = add_file(@, h1, node)]
    /\ op' = [kind |-> "add_file", p |-> p]
    /\ pre' = NoPre
    /\ UNCHANGED <<sl, am, ntvars>>

\* p.rebuild()
Rebuild(p) ==
    /\ NoCrash /\ parts[p].alive
    /\ parts[p].nreb < MaxRebuilds
    /\ LET st == rebuild([heap |-> heap, part |-> parts[p]])
       IN /\ heap' = st.heap
          /\ parts' = [parts EXCEPT ![p] = [st.part EXCEPT !.nreb = @ + 1]]
    /\ op' = [kind |-> "rebuild", p |-> p]
    /\ pre' = Before
    /\ UNCHANGED <<sl, am, ntvars>>

\* merge(part, piece), after which the caller drops piece
Merge ==
    /\ NoCrash /\ parts["part"].alive /\ parts["piece"].alive
    /\ parts' = [parts EXCEPT
                   !["part"].files = merge(heap, @, parts["piece"].files),
                   !["piece"].alive = FALSE]
    /\ op' = [kind |-> "merge", p |-> "part"]
    /\ pre' = Before
    /\ UNCHANGED <<heap, sl, am, ntvars>>

NextPart ==
    \/ AddFile("part")
    \/ Rebuild("part")

\* One partition under any sequence of add_file and rebuild
SpecPart == InitPart /\ [][NextPart]_vars

\* Two partitions of plain files that share one name, for the sequences of
\* add_file, rebuild and merge in which a file moves between directories
TreeIndexes == {6, 7}

\* <<index, parent, is_ghost>>: a plain file that has no parent, or the ghost
\* of the first index with the root as its parent
TreeFiles == {<<i, None, FALSE>> : i \in TreeIndexes} \cup {<<6, root_id, TRUE>>}

\* p.add_file(File(index, "x", ...)) with the parent set by set_parent
AddTreeFile(p) ==
    /\ NoCrash /\ parts[p].alive
    /\ UserFiles < MaxTreeFiles
    /\ p = "piece" => Len(parts[p].files) < MaxPieceFiles
    /\ \E f \in TreeFiles :
         LET node == Len(heap) + 1
             h1 == Append(heap, NewFile(f[1], "x", FALSE, f[3], f[2]))
         IN /\ heap' = h1
            /\ parts' = [parts EXCEPT ![p].files = add_file(@, h1, node)]
    /\ op' = [kind |-> "add_file", p |-> p]
    /\ pre' = NoPre
    /\ UNCHANGED <<sl, am, ntvars>>

NextTree ==
    \/ \E p \in PartNames : AddTreeFile(p)
    \/ \E p \in PartNames : Rebuild(p)
    \/ Merge

\* Two partitions under any sequence of add_file, rebuild and merge
SpecTree == InitPart /\ [][NextTree]_vars

-----------------------------------------------------------------------------
(* The scanner operations that insert files into a partition *)

\* record 1 is $MFTMirr and record 6 is $Bitmap: files, never directories
ScanIndexes == {1, 6}
ScanParents == {5, 6}

\* The scanner inserts files until get_partitions returns; rebuild and the
\* interactive merge come after that
Collecting == \A p \in PartNames : parts[p].alive /\ parts[p].nreb = 0

\* NTFSFile.__init__ on a parsed record: the index is the record number; a
\* record with a usable $FILE_NAME takes its name and parent_entry from it,
\* one without is called File_<index> and keeps parent None
NTFSFile(record_n, hasname, parent_entry, is_dir, is_ghost) ==
    NewFile(record_n,
            IF hasname THEN "x" ELSE "File_" \o ToString(record_n),
            is_dir, is_ghost,
            IF hasname THEN parent_entry ELSE None)

\* the parsed FILE records that Step A can present: whether the $FILE_NAME
\* gives a usable name, and its parent_entry
ParsedNames == {<<TRUE, q>> : q \in ScanParents} \cup {<<FALSE, None>>}

\* get_partitions, Step A, one FILE record: part.add_file(NTFSFile(parsed, position))
StepA(p) ==
    /\ Collecting
    /\ \A q \in PartNames : ~parts[q].mirrored
    /\ UserFiles < MaxFiles
    /\ \E record_n \in ScanIndexes, nm \in ParsedNames :
         LET node == Len(heap) + 1
             h1 == Append(heap, NTFSFile(record_n, nm[1], nm[2], FALSE, FALSE))
         IN /\ heap' = h1
            /\ parts' = [parts EXCEPT ![p].files = add_file(@, h1, node)]
    /\ op' = [kind |-> "step_a", p |-> p]
    /\ pre' = Before
    /\ UNCHANGED <<sl, am, ntvars>>

\* the bytes of the $FILE_NAME of an index entry, as indx_dir_entry_fmt
\* hands them to try_filename: too short for the attribute (broken), or the
\* whole attribute with its name and parent_entry
IndexDumps ==
    {[broken |-> TRUE, hasname |-> FALSE, parent_entry |-> None]} \cup
    {[broken |-> FALSE, hasname |-> nm[1], parent_entry |-> nm[2]] : nm \in ParsedNames}

\* the values of rec['$FILE_NAME']: None, the empty dict, or the fields of
\* the attribute
FileNameNone == [kind |-> "None", hasname |-> FALSE, parent_entry |-> None]
FileNameEmpty == [kind |-> "{}", hasname |-> FALSE, parent_entry |-> None]
FileNameContent(dump) ==
    [kind |-> "content", hasname |-> dump.hasname, parent_entry |-> dump.parent_entry]

\* a try_filename that returns what unpack gives
try_filename_Returned(dump) ==
    IF dump.broken THEN FileNameEmpty ELSE FileNameContent(dump)

\* try_filename(dump): {} when unpack raises TypeError; the call that
\* succeeds is not returned, so that the result is None
try_filename(dump) ==
    IF dump.broken THEN FileNameEmpty ELSE FileNameNone

\* rec['record_n'] not in part.files and rec['$FILE_NAME'] is not None
IndxAdds(files, record_n, file_name) ==
    record_n \notin DictKeys(files) /\ file_name.kind # "None"

\* add_indx_entries(entries, part) for one entry rec: nothing if the record
\* is in part.files or rec['$FILE_NAME'] is None; else a ghost NTFSFile
\* (flags = 0x1, so never a directory), whose __init__ raises KeyError on
\* f['content']['name_length'] when the content is {}
add_indx_entry(h, files, record_n, file_name) ==
    IF ~IndxAdds(files, record_n, file_name)
    THEN [heap |-> h, files |-> files, raised |-> FALSE]
    ELSE IF file_name.kind = "{}"
    THEN [heap |-> h, files |-> files, raised |-> TRUE]
    ELSE LET h1 == Append(h, NTFSFile(record_n, file_name.hasname,
                                      file_name.parent_entry, FALSE, TRUE))
         IN [heap |-> h1, files |-> add_file(files, h1, Len(h) + 1),
             raised |-> FALSE]

\* add_indx_entries for one entry of an INDX record that
\* add_from_indx_allocation reads again; the KeyError leaves get_partitions,
\* which then returns no partition
AddIndxEntries(p) ==
    /\ Collecting
    /\ UserFiles < MaxFiles
    /\ \E record_n \in ScanIndexes, dump \in IndexDumps :
         LET r == add_indx_entry(heap, parts[p].files, record_n, try_filename(dump))
         IN IF r.raised
            THEN /\ heap' = heap
                 /\ parts' = [q \in PartNames |-> [parts[q] EXCEPT !.alive = FALSE]]
                 /\ op' = [kind |-> "KeyError", p |-> p]
            ELSE /\ heap' = r.heap
                 /\ parts' = [parts EXCEPT ![p].files = r.files]
                 /\ op' = [kind |-> "indx", p |-> p]
    /\ pre' = Before
    /\ UNCHANGED <<sl, am, ntvars>>

\* What a record read at the mirror position parses to: not valid or without
\* $FILE_NAME, or the record number its header carries, whether its
\* $FILE_NAME gives a usable name, and the parent_entry of that $FILE_NAME
NoRecord == [valid |-> FALSE, record_n |-> None, hasname |-> FALSE, parent_entry |-> None]
MirrorRecord(record_n, hasname, parent_entry) ==
    [valid |-> TRUE, record_n |-> record_n, hasname |-> hasname,
     parent_entry |-> parent_entry]

\* the four records at the mirror position: none valid, or the second one
\* valid: the number 1 of its place without a usable name, or the number 6
\* with the name "x" and the root as parent
MirrorImages ==
    {<<NoRecord, snd, NoRecord, NoRecord>> :
        snd \in {NoRecord, MirrorRecord(1, FALSE, None), MirrorRecord(6, TRUE, root_id)}}

RECURSIVE MirrorLoop(_, _, _)
\* for i in xrange(4): node = part.get(i); if node is None or node.is_ghost:
\*     parsed = ...; if parsed['valid'] and '$FILE_NAME' in ...:
\*         part.add_file(NTFSFile(parsed, position))
MirrorLoop(st, image, i) ==
    IF i > 3 THEN st
    ELSE LET present == i \in DictKeys(st.files)
             repair == \/ ~present
                       \/ st.heap[DictGet(st.files, i)].is_ghost
             parsed == image[i + 1]
             h1 == Append(st.heap, NTFSFile(parsed.record_n, parsed.hasname,
                                            parsed.parent_entry, FALSE, FALSE))
         IN MirrorLoop(IF repair /\ parsed.valid
                       THEN [heap |-> h1,
                             files |-> add_file(st.files, h1, Len(st.heap) + 1)]
                       ELSE st,
                       image, i + 1)

\* add_from_mft_mirror(part) with a known mirror position
add_from_mft_mirror(h, files, image) ==
    MirrorLoop([heap |-> h, files |-> files], image, 0)

\* entry.offset is not None: NTFSFile.__init__ calls set_offset for a record
\* that is no index entry and has a usable name, "x" in the model
HasOffset(file) == ~file.is_ghost /\ file.name = "x"

\* part.mftmirr_pos is None and sectors(img, entry.offset, FILE_size) raises
\* TypeError: the entry 1 is there and has no offset
MirrorRaises(h, files, known) ==
    /\ ~known
    /\ 1 \in DictKeys(files)
    /\ ~HasOffset(h[DictGet(files, 1)])

\* one pass of the loop 'Repair MFT if the mirror is available' of
\* get_partitions. known: a boot sector gave part.mftmirr_pos. Without it
\* the record of $MFTMirr is read again at entry.offset, which raises
\* TypeError when the offset is None, get_partitions then returning no
\* partition; otherwise part.sec_per_clus is None as well (the boot sector
\* gives both) and the pass ends with no position and no repair
AddFromMftMirror(p) ==
    /\ Collecting
    /\ UserFiles < MaxFiles
    /\ ~parts[p].mirrored
    /\ \E known \in BOOLEAN, image \in MirrorImages :
         IF MirrorRaises(heap, parts[p].files, known)
         THEN /\ heap' = heap
              /\ parts' = [q \in PartNames |-> [parts[q] EXCEPT !.alive = FALSE]]
              /\ op' = [kind |-> "TypeError", p |-> p]
         ELSE LET r == IF known THEN add_from_mft_mirror(heap, parts[p].files, image)
                       ELSE [heap |-> heap, files |-> parts[p].files]
              IN /\ heap' = r.heap
                 /\ parts' = [parts EXCEPT ![p].files = r.files, ![p].mirrored = TRUE]
                 /\ op' = [kind |-> "mirror", p |-> p]
    /\ pre' = Before
    /\ UNCHANGED <<sl, am, ntvars>>

NextScan ==
    \/ \E p \in PartNames : StepA(p)
    \/ \E p \in PartNames : AddIndxEntries(p)
    \/ \E p \in PartNames : AddFromMftMirror(p)
    \/ \E p \in PartNames : Rebuild(p)
    \/ Merge

\* Two partitions under the scanner's insertions, rebuild and merge
SpecScan == InitPart /\ [][NextScan]_vars

-----------------------------------------------------------------------------
(* A SparseList under construction, item assignment and wipe_interval *)

SparseKeys == 0..MaxKey
SparseValues == {None, 0, 1}
SparseDefaults == {None, 0}

\* every dict from some of the keys to the values
SparseData == UNION {[S -> SparseValues] : S \in SUBSET SparseKeys}

InitSparse ==
    /\ IdleNtfs
    /\ \E data \in SparseData, default \in SparseDefaults :
          sl = SparseList(data, default)
    /\ heap = <<>>
    /\ parts = [p \in PartNames |-> NewPartition(None)]
    /\ op = [kind |-> "init", p |-> "part"]
    /\ pre = NoPre
    /\ am = IdleMatch

\* sl[index] = item
SetItem ==
    /\ \E index \in SparseKeys, item \in SparseValues :
          /\ sl' = SparseSet(sl, index, item)
          /\ op' = [kind |-> "setitem", p |-> "part", index |-> index,
                    item |-> item, was |-> sl]
    /\ UNCHANGED <<heap, parts, pre, am, ntvars>>

\* sl.wipe_interval(bottom, top)
WipeInterval ==
    /\ \E bottom \in 0..(MaxKey + 1), top \in 0..(MaxKey + 1) :
          /\ sl' = wipe_interval(sl, bottom, top)
          /\ op' = [kind |-> "wipe_interval", p |-> "part", bottom |-> bottom,
                    top |-> top, was |-> sl]
    /\ UNCHANGED <<heap, parts, pre, am, ntvars>>

NextSparse == SetItem \/ WipeInterval

SpecSparse == InitSparse /\ [][NextSparse]_vars

-----------------------------------------------------------------------------
(* Approximate matching of a pattern against the text of found records *)

\* lookup.get(name, [])
LookupGet(lookup, name) == IF name \in DOMAIN lookup THEN lookup[name] ELSE <<>>

RECURSIVE PreprocessLoop(_, _, _, _)
\* the loop of preprocess_pattern, from the n-th key of the pattern on
PreprocessLoop(pattern, length, n, result) ==
    IF n > Len(pattern.keys) THEN result
    ELSE LET k == pattern.keys[n]
             name == SparseGet(pattern, k)
             r1 == IF name \notin DOMAIN result
                   THEN DictPut(result, name, <<length - k - 1>>)
                   ELSE IF name # result[name][Len(result[name])]
                   THEN DictPut(result, name, Append(result[name], length - k - 1))
                   ELSE result
         IN PreprocessLoop(pattern, length, n + 1, r1)

\* preprocess_pattern(pattern): symbol -> list of offsets from the end
preprocess_pattern(pattern) ==
    PreprocessLoop(pattern, SparseLen(pattern), 1, NoData)

RECURSIVE OffsetsLoop(_, _, _, _)
\* for off in offsets: the order does not change the outcome, the offsets
\* are taken in ascending order
OffsetsLoop(st, offsets, i, msize) ==
    IF offsets = {} THEN st
    ELSE LET off == CHOOSE x \in offsets : \A y \in offsets : x <= y
             slot == (i + off) % msize
             count == SparseSet(st.count, slot, SparseGet(st.count, slot) + 1)
             score == SparseGet(count, slot)
             pos == i + off - msize + 1
             st1 == [st EXCEPT !.count = count,
                               !.match_offsets = IF score = st.k
                                                 THEN @ \cup {pos} ELSE @]
             st2 == IF score > st1.k
                    THEN [st1 EXCEPT !.k = score, !.match_offsets = {pos}]
                    ELSE st1
         IN OffsetsLoop(st2, offsets \ {off}, i, msize)

RECURSIVE RecordsLoop(_, _, _, _, _, _)
\* for i in records, from the n-th key of the text on
RecordsLoop(st, records, lookup, msize, stop, n) ==
    IF n > Len(records.keys) THEN st
    ELSE LET i == records.keys[n]
         IN IF i > stop + msize - 1 THEN st
            ELSE LET wiped == [st EXCEPT
                                 !.count = wipe_interval(@, st.j % msize, i % msize),
                                 !.j = i]
                     found == LookupGet(lookup, SparseGet(records, i))
                     offsets == {found[x] : x \in DOMAIN found}
                 IN RecordsLoop(OffsetsLoop(wiped, offsets, i, msize),
                                records, lookup, msize, stop, n + 1)

\* the result None
NoMatch == [found |-> FALSE, offsets |-> {}, k |-> 0, ratio |-> <<0, 1>>]

\* approximate_matching(records, pattern, stop, k): [match_offsets, k, ratio],
\* the ratio float(k) / len(pattern.keys) as <<numerator, denominator>>
approximate_matching(records, pattern, stop, k) ==
    LET msize == SparseLen(pattern)
    IN IF SparseLen(records) = 0 \/ msize = 0 THEN NoMatch
       ELSE LET st == RecordsLoop([count |-> SparseList(NoData, 0), j |-> 0,
                                   k |-> k, match_offsets |-> {}],
                                  records, preprocess_pattern(pattern),
                                  msize, stop, 1)
            IN IF Cardinality(st.match_offsets) # 0
               THEN [found |-> TRUE, offsets |-> st.match_offsets, k |-> st.k,
                     ratio |-> <<st.k, Len(pattern.keys)>>]
               ELSE NoMatch

\* the symbols are record numbers
Symbols == {1, 2}

\* every dict from some of the keys 0..n to the symbols
SymbolData(n) == UNION {[S -> Symbols] : S \in SUBSET (0..n)}

InitMatch ==
    /\ IdleNtfs
    /\ \E text \in SymbolData(MaxText), pattern \in SymbolData(MaxPattern),
          stop \in 0..MaxStop, k \in 1..MaxK :
          am = [phase |-> "input", records |-> SparseList(text, None),
                pattern |-> SparseList(pattern, None), stop |-> stop, k |-> k,
                result |-> NoMatch]
    /\ heap = <<>>
    /\ parts = [p \in PartNames |-> NewPartition(None)]
    /\ op = [kind |-> "init", p |-> "part"]
    /\ pre = NoPre
    /\ sl = IdleSparse

\* result = approximate_matching(records, pattern, stop, k)
Match ==
    /\ am.phase = "input"
    /\ am' = [am EXCEPT !.phase = "done",
                        !.result = approximate_matching(am.records, am.pattern,
                                                        am.stop, am.k)]
    /\ op' = [kind |-> "approximate_matching", p |-> "part"]
    /\ UNCHANGED <<heap, parts, pre, sl, ntvars>>

NextMatch == Match

SpecMatch == InitMatch /\ [][NextMatch]_vars

-----------------------------------------------------------------------------
(* runlist_unpack (recuperabit/fs/ntfs_fmt.py) over unpack and signedbytes *)
(* (recuperabit/utils.py); a byte string is a sequence of 0..255           *)

\* data[low:high+1] for low >= 0 and high >= -1
Slice(data, low, high) ==
    IF low >= Len(data) \/ high < low THEN <<>>
    ELSE SubSeq(data, low + 1, IF high + 1 < Len(data) THEN high + 1 ELSE Len(data))

\* data[::-1]
Reversed(data) == [i \in 1..Len(data) |-> data[Len(data) + 1 - i]]

\* int(str(data).encode('hex'), 16)
RECURSIVE HexInt(_)
HexInt(data) ==
    IF data = <<>> THEN 0
    ELSE HexInt(SubSeq(data, 1, Len(data) - 1)) * 256 + data[Len(data)]

\* signedbytes(data), data big-endian and not empty; the inverted bytes have
\* a clear first bit, so the recursive call takes the second branch
signedbytes(data) ==
    IF data[1] >= 128
    THEN -HexInt([i \in 1..Len(data) |-> 255 - data[i]]) - 1
    ELSE HexInt(data)

\* unpack(data, [(label, (formatter, low, high))])[label] for the formatters
\* 'i' (unsigned, little-endian) and '+i' (signed, little-endian)
unpack(data, formatter, low, high) ==
    LET chunk == Slice(data, low, high)
    IN  IF Len(chunk) = 0 THEN None
        ELSE IF formatter = "+i" THEN signedbytes(Reversed(chunk))
        ELSE HexInt(Reversed(chunk))

\* the while loop of runlist_unpack
RECURSIVE RunlistLoop(_, _)
RunlistLoop(runlist, pieces) ==
    IF Len(runlist) = 0 \/ runlist[1] = 0 THEN pieces
    ELSE LET off_bytes == runlist[1] \div 16
             len_bytes == runlist[1] % 16
             end == len_bytes + off_bytes
             length == unpack(runlist, "i", 1, len_bytes)
             offset == unpack(runlist, "+i", len_bytes + 1, end)
             decoded == [length |-> length, offset |-> offset]
         IN  IF length = None \/ offset = None THEN pieces
             ELSE RunlistLoop(Slice(runlist, end + 1, Len(runlist) - 1),
                              Append(pieces, decoded))

runlist_unpack(runlist) == RunlistLoop(runlist, <<>>)

\* the byte values of the runlists: the terminator, lengths and offsets 1 and
\* 2, the headers 0x01 (sparse), 0x11 and 0x21, and 0x80 (a negative offset)
RunlistBytes == {0, 1, 2, 17, 33, 128}

Runlists == UNION {[1..n -> RunlistBytes] : n \in 0..MaxRunlist}

InitRunlist ==
    /\ \E runlist \in Runlists :
          rl = [runlist |-> runlist, pieces |-> <<>>, done |-> FALSE]
    /\ sc = IdleScanner
    /\ gc = IdleContent
    /\ rd = IdleSectors
    /\ bn = IdleBestName
    /\ gp = IdlePartitions
    /\ fx = IdleFixup
    /\ mr = IdleMirror
    /\ cl = IdleCluster
    /\ fb = IdleBoundary
    /\ ci = IdleIterator
    /\ heap = <<>>
    /\ parts = [p \in PartNames |-> NewPartition(None)]
    /\ op = [kind |-> "init", p |-> "part"]
    /\ pre = NoPre
    /\ sl = IdleSparse
    /\ am = IdleMatch

\* pieces = runlist_unpack(runlist)
RunlistUnpack ==
    /\ ~rl.done
    /\ rl' = [rl EXCEPT !.pieces = runlist_unpack(rl.runlist), !.done = TRUE]
    /\ op' = [kind |-> "runlist_unpack", p |-> "part"]
    /\ UNCHANGED <<heap, parts, pre, sl, am, sc, gc, rd, bn, gp, fx, mr, cl, fb, ci>>

NextRunlist == RunlistUnpack

SpecRunlist == InitRunlist /\ [][NextRunlist]_vars

-----------------------------------------------------------------------------
(* NTFSScanner.feed (recuperabit/fs/ntfs.py) *)

\* NTFSScanner.__init__: the tables that feed fills; res is the value the
\* last feed returned ("None" for None), fed the (index, sector) pairs fed so
\* far and was the tables before the last feed
NewScanner ==
    [found_boot |-> <<>>, found_file |-> {}, found_indx |-> {},
     res |-> "None", fed |-> <<>>,
     was |-> [found_boot |-> <<>>, found_file |-> {}, found_indx |-> {}]]

\* sector.startswith(prefix)
startswith(sector, prefix) ==
    /\ Len(prefix) <= Len(sector)
    /\ SubSeq(sector, 1, Len(prefix)) = prefix

\* sector.endswith(suffix)
endswith(sector, suffix) ==
    /\ Len(suffix) <= Len(sector)
    /\ SubSeq(sector, Len(sector) - Len(suffix) + 1, Len(sector)) = suffix

\* sub in data
Contains(sub, data) ==
    \E i \in 0..(Len(data) - Len(sub)) : SubSeq(data, i + 1, i + Len(sub)) = sub

\* the byte strings feed looks for
Sig55AA == <<85, 170>>
StrNTFS == <<78, 84, 70, 83>>
StrFILE == <<70, 73, 76, 69>>
StrBAAD == <<66, 65, 65, 68>>
StrINDX == <<73, 78, 68, 88>>

\* the test of a boot sector with only the 0x55 0xAA signature
IsBoot_SignatureOnly(sector) == endswith(sector, Sig55AA)

\* sector.endswith('\x55\xAA') and 'NTFS' in sector[:8]
IsBoot(sector) ==
    endswith(sector, Sig55AA) /\ Contains(StrNTFS, Slice(sector, 0, 7))

\* an append that skips an index already in the list
ListAppend_Once(list, index) ==
    IF \E i \in DOMAIN list : list[i] = index THEN list ELSE Append(list, index)

\* self.found_boot.append(index)
ListAppend(list, index) == Append(list, index)

\* self.feed(index, sector): the tables and the returned value
feed(self, index, sector) ==
    IF IsBoot(sector)
    THEN [self EXCEPT !.found_boot = ListAppend(@, index),
                      !.res = "NTFS boot sector"]
    ELSE IF startswith(sector, StrFILE) \/ startswith(sector, StrBAAD)
    THEN [self EXCEPT !.found_file = @ \cup {index},
                      !.res = "NTFS file record"]
    ELSE IF startswith(sector, StrINDX)
    THEN [self EXCEPT !.found_indx = @ \cup {index},
                      !.res = "NTFS index record"]
    ELSE [self EXCEPT !.res = "None"]

\* the tables of a scanner
Tables(self) ==
    [found_boot |-> self.found_boot, found_file |-> self.found_file,
     found_indx |-> self.found_indx]

\* the first eight bytes of the sectors fed: a boot sector's jump and OEM
\* name, a FILE, a BAAD and an INDX record, records with NTFS after the
\* signature, and NTFS cut by the eighth byte
HeadBoot == <<235, 82, 144, 78, 84, 70, 83, 32>>
HeadFILE == <<70, 73, 76, 69, 48, 0, 3, 0>>
HeadBAAD == <<66, 65, 65, 68, 48, 0, 3, 0>>
HeadINDX == <<73, 78, 68, 88, 40, 0, 9, 0>>
HeadFILENTFS == <<70, 73, 76, 69, 78, 84, 70, 83>>
HeadINDXNTFS == <<73, 78, 68, 88, 78, 84, 70, 83>>
HeadCut == <<0, 0, 0, 0, 0, 78, 84, 70>>

\* the last three bytes of the sectors fed
TailSig == <<83, 85, 170>>
TailNone == <<83, 0, 0>>

\* the sectors fed, without the bytes that feed does not look at
Sectors ==
    { HeadBoot \o TailSig, HeadBoot \o TailNone,
      HeadFILE \o TailNone, HeadBAAD \o TailSig,
      HeadINDX \o TailNone, HeadFILENTFS \o TailSig,
      HeadINDXNTFS \o TailSig, HeadCut \o TailSig }

\* the sector indexes fed
SectorIndexes == {3, 8}

InitFeed ==
    /\ sc = NewScanner
    /\ gc = IdleContent
    /\ rd = IdleSectors
    /\ rl = IdleRunlist
    /\ bn = IdleBestName
    /\ gp = IdlePartitions
    /\ fx = IdleFixup
    /\ mr = IdleMirror
    /\ cl = IdleCluster
    /\ fb = IdleBoundary
    /\ ci = IdleIterator
    /\ heap = <<>>
    /\ parts = [p \in PartNames |-> NewPartition(None)]
    /\ op = [kind |-> "init", p |-> "part"]
    /\ pre = NoPre
    /\ sl = IdleSparse
    /\ am = IdleMatch

\* res = scanner.feed(index, sector)
Feed ==
    /\ Len(sc.fed) < MaxFeeds
    /\ \E index \in SectorIndexes, sector \in Sectors :
          sc' = [feed(sc, index, sector) EXCEPT
                    !.fed = Append(@, <<index, sector>>),
                    !.was = Tables(sc)]
    /\ op' = [kind |-> "feed", p |-> "part"]
    /\ UNCHANGED <<heap, parts, pre, sl, am, rl, gc, rd, bn, gp, fx, mr, cl, fb, ci>>

NextFeed == Feed

SpecFeed == InitFeed /\ [][NextFeed]_vars

-----------------------------------------------------------------------------
(* NTFSFile.get_content and content_iterator (recuperabit/fs/ntfs.py). The *)
(* record read again is given by its validity and its $DATA attributes, a  *)
(* record without $ATTRIBUTE_LIST; every non-resident attribute holds one  *)
(* cluster (start_VCN = end_VCN, a runlist of one run of one cluster).     *)
(* A content is the sequence of its clusters: 0 for a cluster of zeros, i  *)
(* for the bytes of the i-th $DATA attribute of the record.                *)

\* what get_content returns or raises; the chunks of an iterator are those
\* that next() has yielded so far
Returned(kind, chunks) == [kind |-> kind, chunks |-> chunks]

\* [d for d in attrs['$DATA'] if d['name'] == self.ads], as positions
Matching(attrs, ads) == SelectSeq([i \in DOMAIN attrs |-> i], LAMBDA i : attrs[i].name = ads)

\* (d for d in attrs['$DATA'] if d['non_resident']), as positions
NonResident(attrs) == SelectSeq([i \in DOMAIN attrs |-> i], LAMBDA i : attrs[i].non_resident)

\* sorted(..., key=lambda x: x['start_VCN']): a stable sort
RECURSIVE SortedByVCN(_, _)
SortedByVCN(attrs, ids) ==
    IF ids = <<>> THEN <<>>
    ELSE LET rest == SortedByVCN(attrs, SubSeq(ids, 1, Len(ids) - 1))
             last == ids[Len(ids)]
             before == SelectSeq(rest, LAMBDA i : attrs[i].start_VCN <= attrs[last].start_VCN)
             after == SelectSeq(rest, LAMBDA i : attrs[i].start_VCN > attrs[last].start_VCN)
         IN  before \o <<last>> \o after

\* the clusters of zeros that content_iterator yields for a gap of diff
Zeros(diff) == [i \in 1..(IF diff > 0 THEN diff ELSE 0) |-> 0]

\* no generator: get_content returned no iterator
NoGenerator == [state |-> "none", datas |-> <<>>, vcn |-> 0]

\* content_iterator(partition, image, datas): the generator that the call
\* returns. It has run nothing of the body yet; vcn = 0 is its first line
content_iterator(datas) == [state |-> "created", datas |-> datas, vcn |-> 0]

\* next(g): the body of content_iterator up to the next yield. It reads
\* partition.sec_per_clus when it runs, not when get_content was called, and
\* both the gap (max_sectors//spc) and the runlist (entry['length'] * spc)
\* raise TypeError when that is None. The gap of diff clusters is one chunk,
\* min(max_sectors//spc, diff) being diff for the sec_per_clus 1 of the model.
\* chunk is what is yielded, as clusters; no chunk at StopIteration or TypeError
GeneratorNext(g, attrs, sec_per_clus) ==
    IF g.datas = <<>>
    THEN [gen |-> [g EXCEPT !.state = "ended"], chunk |-> <<>>]
    ELSE LET attr == attrs[Head(g.datas)]
             diff == attr.start_VCN - g.vcn
         IN  IF sec_per_clus = None
             THEN [gen |-> [g EXCEPT !.state = "TypeError"], chunk |-> <<>>]
             ELSE IF diff > 0
             THEN [gen |-> [g EXCEPT !.state = "running", !.vcn = @ + diff],
                   chunk |-> Zeros(diff)]
             ELSE [gen |-> [state |-> "running", datas |-> Tail(g.datas),
                            vcn |-> attr.start_VCN + 1],
                   chunk |-> <<Head(g.datas)>>]

\* some attribute among ids has the compressed flag (flags & 0x01)
Compressed(attrs, ids) == \E k \in DOMAIN ids : attrs[ids[k]].flags % 2 = 1

\* non_resident = sorted((d for d in attrs['$DATA'] if d['non_resident']), ...)
IteratorDatas(attrs) == SortedByVCN(attrs, NonResident(attrs))

\* self.get_content(partition), the record read again being parsed
get_content(self, sec_per_clus, parsed) ==
    IF self.is_ghost THEN Returned("None", <<>>)
    ELSE IF self.offset = None THEN Returned("TypeError", <<>>)
    ELSE IF ~parsed.valid THEN Returned("None", <<>>)
    ELSE LET attrs == parsed.datas
             datas == Matching(attrs, self.ads)
         IN  IF Len(datas) = 0 THEN Returned("None", <<>>)
             ELSE IF Compressed(attrs, datas) THEN Returned("None", <<>>)
             ELSE IF Len(datas) = 1 /\ ~attrs[datas[1]].non_resident
                  THEN Returned("str", <<datas[1]>>)
             ELSE IF sec_per_clus = None THEN Returned("None", <<>>)
             ELSE Returned("iterator", <<>>)

\* the generator that get_content returns with an iterator
generator_of(result, parsed) ==
    IF result.kind = "iterator" THEN content_iterator(IteratorDatas(parsed.datas))
    ELSE NoGenerator

\* the stream names of a record: the main stream and one named stream
StreamNames == {"", "ads"}

\* the $DATA attributes of a record: flags 0x01 is compressed, 0x4000 encrypted
DataAttributes ==
    [name : StreamNames, non_resident : BOOLEAN, flags : {0, 1, 16384},
     start_VCN : {0, 2}]

\* the files: NTFSFile.__init__ leaves offset None when the record has no
\* usable name
ContentFiles == [is_ghost : BOOLEAN, ads : StreamNames, offset : {None, 10}]

InitContent ==
    /\ \E file \in ContentFiles, spc \in {None, 1}, valid \in BOOLEAN,
          datas \in UNION {[1..n -> DataAttributes] : n \in 0..MaxDatas} :
          gc = [phase |-> "input", file |-> file, sec_per_clus |-> spc,
                parsed |-> [valid |-> valid, datas |-> datas],
                result |-> Returned("None", <<>>), gen |-> NoGenerator]
    /\ rd = IdleSectors
    /\ rl = IdleRunlist
    /\ sc = IdleScanner
    /\ bn = IdleBestName
    /\ gp = IdlePartitions
    /\ fx = IdleFixup
    /\ mr = IdleMirror
    /\ cl = IdleCluster
    /\ fb = IdleBoundary
    /\ ci = IdleIterator
    /\ heap = <<>>
    /\ parts = [p \in PartNames |-> NewPartition(None)]
    /\ op = [kind |-> "init", p |-> "part"]
    /\ pre = NoPre
    /\ sl = IdleSparse
    /\ am = IdleMatch

\* result = file.get_content(partition): an iterator has read nothing yet
GetContent ==
    /\ gc.phase = "input"
    /\ LET result == get_content(gc.file, gc.sec_per_clus, gc.parsed)
       IN  gc' = [gc EXCEPT !.phase = "done", !.result = result,
                           !.gen = generator_of(result, gc.parsed)]
    /\ op' = [kind |-> "get_content", p |-> "part"]
    /\ UNCHANGED <<heap, parts, pre, sl, am, rl, sc, rd, bn, gp, fx, mr, cl, fb, ci>>

\* next(result) on the iterator that get_content returned
NextOfContent ==
    /\ gc.phase = "done"
    /\ gc.gen.state \in {"created", "running"}
    /\ LET r == GeneratorNext(gc.gen, gc.parsed.datas, gc.sec_per_clus)
       IN  gc' = [gc EXCEPT !.gen = r.gen, !.result.chunks = @ \o r.chunk]
    /\ op' = [kind |-> "next_content", p |-> "part"]
    /\ UNCHANGED <<heap, parts, pre, sl, am, rl, sc, rd, bn, gp, fx, mr, cl, fb, ci>>

NextContent ==
    \/ GetContent
    \/ NextOfContent

SpecContent == InitContent /\ [][NextContent]_vars

-----------------------------------------------------------------------------
(* sectors (recuperabit/utils.py): an image is the sequence of its bytes;  *)
(* its seek and its read fail or not as the call's seek_error and          *)
(* read_error say                                                          *)

\* n zero bytes: n * '\x00'
ZeroBytes(n) == [i \in 1..n |-> 0]

\* a read that fills what the image lacks with zeros
ImageRead_Padded(image, pos, n) == Slice(image, pos, pos + n - 1) \o
    ZeroBytes(n - Len(Slice(image, pos, pos + n - 1)))

\* image.seek(pos); image.read(n): the bytes from pos on, at most n and
\* fewer at the end of the image
ImageRead(image, pos, n) == Slice(image, pos, pos + n - 1)

\* sectors(image, offset, size, bsize, fill): none is TRUE when None is
\* returned
sectors(image, offset, size, bsize, fill, seek_error, read_error) ==
    LET read == ~seek_error /\ ~read_error
    IN  IF read
        THEN [none |-> FALSE, dump |-> ImageRead(image, offset * bsize, size * bsize)]
        ELSE IF fill THEN [none |-> FALSE, dump |-> ZeroBytes(size * bsize)]
        ELSE [none |-> TRUE, dump |-> <<>>]

\* the images: at most MaxImage bytes, none of them zero
Images == UNION {[1..n -> {1, 2}] : n \in 0..MaxImage}

InitSectors ==
    /\ \E image \in Images, offset \in 0..2, size \in 0..2, bsize \in 1..2,
          fill \in BOOLEAN, seek_error \in BOOLEAN, read_error \in BOOLEAN :
          rd = [phase |-> "input", image |-> image, offset |-> offset,
                size |-> size, bsize |-> bsize, fill |-> fill,
                seek_error |-> seek_error, read_error |-> read_error,
                result |-> [none |-> TRUE, dump |-> <<>>]]
    /\ rl = IdleRunlist
    /\ sc = IdleScanner
    /\ gc = IdleContent
    /\ bn = IdleBestName
    /\ gp = IdlePartitions
    /\ fx = IdleFixup
    /\ mr = IdleMirror
    /\ cl = IdleCluster
    /\ fb = IdleBoundary
    /\ ci = IdleIterator
    /\ heap = <<>>
    /\ parts = [p \in PartNames |-> NewPartition(None)]
    /\ op = [kind |-> "init", p |-> "part"]
    /\ pre = NoPre
    /\ sl = IdleSparse
    /\ am = IdleMatch

\* result = sectors(image, offset, size, bsize, fill)
ReadSectors ==
    /\ rd.phase = "input"
    /\ rd' = [rd EXCEPT !.phase = "done",
                        !.result = sectors(rd.image, rd.offset, rd.size, rd.bsize,
                                           rd.fill, rd.seek_error, rd.read_error)]
    /\ op' = [kind |-> "sectors", p |-> "part"]
    /\ UNCHANGED <<heap, parts, pre, sl, am, rl, sc, gc, bn, gp, fx, mr, cl, fb, ci>>

NextSectors == ReadSectors

SpecSectors == InitSectors /\ [][NextSectors]_vars

-----------------------------------------------------------------------------
(* best_name (recuperabit/fs/ntfs.py): an entry is <<namespace, name>>, a  *)
(* name the sequence of its characters                                     *)

\* a < b for two strings
RECURSIVE StrLess(_, _)
StrLess(a, b) ==
    IF b = <<>> THEN FALSE
    ELSE IF a = <<>> THEN TRUE
    ELSE IF Head(a) # Head(b) THEN Head(a) < Head(b)
    ELSE StrLess(Tail(a), Tail(b))

\* a <= b for two (namespace, name) tuples
EntryLeq(a, b) ==
    \/ a[1] < b[1]
    \/ a[1] = b[1] /\ (a[2] = b[2] \/ StrLess(a[2], b[2]))

\* entries.sort()
RECURSIVE SortedEntries(_)
SortedEntries(entries) ==
    IF entries = <<>> THEN <<>>
    ELSE LET rest == SortedEntries(SubSeq(entries, 1, Len(entries) - 1))
             last == entries[Len(entries)]
         IN  SelectSeq(rest, LAMBDA e : EntryLeq(e, last)) \o <<last>>
                 \o SelectSeq(rest, LAMBDA e : ~EntryLeq(e, last))

\* best_name(entries): none is TRUE when None is returned
best_name(entries) ==
    IF Len(entries) = 0 THEN [none |-> TRUE, name |-> <<>>]
    ELSE LET s == SortedEntries(entries)
             name == IF s[Len(s)][1] = 3 THEN s[Len(s)][2] ELSE s[1][2]
         IN  IF Len(name) > 0 THEN [none |-> FALSE, name |-> name]
             ELSE [none |-> TRUE, name |-> <<>>]

\* the namespaces: Win32, DOS, Win32 and DOS, and a value that NTFS does
\* not define
Namespaces == {1, 2, 3, 4}

\* the names: '', 'a' and 'b'
FileNames == { <<>>, <<97>>, <<98>> }

NameEntries == Namespaces \X FileNames

InitBestName ==
    /\ \E entries \in UNION {[1..n -> NameEntries] : n \in 0..MaxEntries} :
          bn = [phase |-> "input", entries |-> entries,
                result |-> [none |-> TRUE, name |-> <<>>]]
    /\ rl = IdleRunlist
    /\ sc = IdleScanner
    /\ gc = IdleContent
    /\ rd = IdleSectors
    /\ gp = IdlePartitions
    /\ fx = IdleFixup
    /\ mr = IdleMirror
    /\ cl = IdleCluster
    /\ fb = IdleBoundary
    /\ ci = IdleIterator
    /\ heap = <<>>
    /\ parts = [p \in PartNames |-> NewPartition(None)]
    /\ op = [kind |-> "init", p |-> "part"]
    /\ pre = NoPre
    /\ sl = IdleSparse
    /\ am = IdleMatch

\* result = best_name(entries): entries.sort() sorts the list of the caller
\* in place, unless the list is empty
BestName ==
    /\ bn.phase = "input"
    /\ bn' = [bn EXCEPT !.phase = "done", !.result = best_name(bn.entries),
                        !.entries = SortedEntries(bn.entries)]
    /\ op' = [kind |-> "best_name", p |-> "part"]
    /\ UNCHANGED <<heap, parts, pre, sl, am, rl, sc, gc, rd, gp, fx, mr, cl, fb, ci>>

NextBestName == BestName

SpecBestName == InitBestName /\ [][NextBestName]_vars

-----------------------------------------------------------------------------
(* NTFSScanner.get_partitions (recuperabit/fs/ntfs.py): the geometry of    *)
(* the partitions and the offsets of their files. partitioned_files maps   *)
(* the sector of record 0 of an $MFT to its partition; the records that   *)
(* the image holds carry the numbers 0 ($MFT) and 1 ($MFTMirr), and are    *)
(* the files of the main stream.                                           *)

\* sectors of a FILE record
FILE_size == 2

\* the keys of partitioned_files
MftAddresses == {10, 20}

\* the record numbers that the FILE records and index entries of the image
\* carry
RecordNumbers == {0, 1}

\* no file at an index of part.files
NoFile == [present |-> FALSE, is_ghost |-> FALSE, offset |-> None, record_at |-> None]

\* NTFSFile(parsed, offset, is_ghost): File.__init__ leaves self.offset None
\* and set_offset is called only if the record has a usable name; record_at
\* remembers the sector that the record was read from (None for an index entry)
NTFSFileAt(hasname, offset, is_ghost) ==
    [present |-> TRUE, is_ghost |-> is_ghost,
     offset |-> IF hasname THEN offset ELSE None, record_at |-> offset]

\* NTFSPartition(self, position)
NTFSPartition(position) ==
    [present |-> TRUE, recoverable |-> FALSE, offset |-> None,
     sec_per_clus |-> None, mft_pos |-> position, mftmirr_pos |-> None,
     files |-> [n \in RecordNumbers |-> NoFile]]

\* no partition at a key of partitioned_files
NoPartition == [NTFSPartition(None) EXCEPT !.present = FALSE]

\* address in partitioned_files
Found(partitioned_files, address) ==
    address \in MftAddresses /\ partitioned_files[address].present

\* the partition marked recoverable, without its geometry
SetGeometry_FlagOnly(part, offset, sec_per_clus) ==
    [part EXCEPT !.recoverable = TRUE]

\* part.set_recoverable(True); part.offset = offset;
\* part.sec_per_clus = sec_per_clus
SetGeometry(part, offset, sec_per_clus) ==
    [part EXCEPT !.recoverable = TRUE, !.offset = offset,
                 !.sec_per_clus = sec_per_clus]

\* add_indx_entries(entries, part) for one entry rec: nothing if the record
\* is in part.files or rec['$FILE_NAME'] is None; else a ghost without
\* offset, NTFSFile raising KeyError when the content is {}
add_ghost_entry(part, record_n, file_name) ==
    IF part.files[record_n].present \/ file_name.kind = "None"
    THEN [part |-> part, raised |-> FALSE]
    ELSE IF file_name.kind = "{}"
    THEN [part |-> part, raised |-> TRUE]
    ELSE [part |-> [part EXCEPT !.files[record_n] =
                       NTFSFileAt(file_name.hasname, None, TRUE)],
          raised |-> FALSE]

\* the loop over found_file, one FILE record with a record number and a
\* $FILE_NAME attribute: the partition of its $MFT is created if it is not
\* there and takes NTFSFile(parsed, position). add_from_indx_root adds
\* nothing after it: the records of an $INDEX_ROOT that parses are [], since
\* index_entries stops at a $FILE_NAME that try_filename gives as {} and
\* raises TypeError on None, the attribute being dropped by
\* _attributes_reader
file_record(partitioned_files, address, record_n, hasname) ==
    LET position == address + record_n * FILE_size
        part == IF partitioned_files[address].present
                THEN partitioned_files[address] ELSE NTFSPartition(address)
    IN  [partitioned_files EXCEPT ![address] =
            [part EXCEPT !.files[record_n] = NTFSFileAt(hasname, position, FALSE)]]

\* the loop over found_boot, one boot sector: the partition whose $MFT the
\* sector points to, as a boot sector or as its backup, takes its geometry
boot_sector(partitioned_files, boot) ==
    LET sec_per_clus == boot.sectors_per_cluster
        relative == boot.MFT_addr * sec_per_clus
        mirr_relative == boot.MFTmirr_addr * sec_per_clus
        backup == boot.index - boot.sectors
        Take(index) ==
            [partitioned_files EXCEPT ![relative + index] =
                [SetGeometry(@, index, sec_per_clus) EXCEPT
                    !.mftmirr_pos = mirr_relative + index]]
    IN  IF Found(partitioned_files, relative + boot.index) THEN Take(boot.index)
        ELSE IF Found(partitioned_files, relative + backup) THEN Take(backup)
        ELSE partitioned_files

\* what the record read at a place of the mirror parses to: not valid or
\* without $FILE_NAME, or the record number that its header carries and
\* whether its $FILE_NAME gives a usable name
InvalidRecord == [valid |-> FALSE, record_n |-> None, hasname |-> FALSE]
MirrorParsed ==
    {InvalidRecord} \cup [valid : {TRUE}, record_n : RecordNumbers, hasname : BOOLEAN]

\* the four records read at the places of a mirror, at most MaxMirrorRecords
\* of them valid
MirrorsRead ==
    {mirror \in [1..4 -> MirrorParsed] :
        Cardinality({i \in 1..4 : mirror[i].valid}) <= MaxMirrorRecords}

\* part.get(i): the partitions of the model hold no record above 1
PartGetFile(part, i) == IF i \in RecordNumbers THEN part.files[i] ELSE NoFile

\* add_from_mft_mirror(part): for i in xrange(4), when the record i is
\* missing or a ghost, the record at the place i of the mirror is read and,
\* if valid, added as NTFSFile(parsed, position): under the record number
\* that it carries, whatever i is. mirror[i + 1] is the record at place i
RECURSIVE mirror_loop(_, _, _)
mirror_loop(part, mirror, i) ==
    IF i > 3 \/ part.mftmirr_pos = None THEN part
    ELSE LET node == PartGetFile(part, i)
             position == part.mftmirr_pos + i * FILE_size
             parsed == mirror[i + 1]
         IN  mirror_loop(
                 IF (~node.present \/ node.is_ghost) /\ parsed.valid
                 THEN [part EXCEPT !.files[parsed.record_n] =
                          NTFSFileAt(parsed.hasname, position, FALSE)]
                 ELSE part,
                 mirror, i + 1)

\* merge(part, piece) on part.files
merge_files(part, piece) ==
    [part EXCEPT !.files =
        [n \in RecordNumbers |->
            IF piece.files[n].present /\ (~part.files[n].present \/ part.files[n].is_ghost)
            THEN piece.files[n] ELSE part.files[n]]]

\* a merge that sees no conflict
Conflicts_None(part, piece) == {}

\* the conflicts of a merge: records that are not ghosts in both partitions
Conflicts(part, piece) ==
    {n \in RecordNumbers :
        /\ piece.files[n].present /\ ~piece.files[n].is_ghost
        /\ part.files[n].present /\ ~part.files[n].is_ghost}

\* the boot sectors of the image: one that points to the $MFT at 10, its
\* backup at the end of the partition, and one that points to the $MFT at 20
BootSectors ==
    { [index |-> 2, sectors_per_cluster |-> 2, MFT_addr |-> 4,
       MFTmirr_addr |-> 9, sectors |-> 100],
      [index |-> 102, sectors_per_cluster |-> 2, MFT_addr |-> 4,
       MFTmirr_addr |-> 9, sectors |-> 100],
      [index |-> 12, sectors_per_cluster |-> 1, MFT_addr |-> 8,
       MFTmirr_addr |-> 4, sectors |-> 100] }

\* what find_boundary returns: (None, None), or an offset and its sec_per_clus
Boundaries == { <<None, None>>, <<2, 2>>, <<4, 8>> }

\* the loops of get_partitions, each with the one after it; the stage is
\* "done" when get_partitions has returned and "TypeError" or "KeyError"
\* when it raised
StageAfter ==
    [file |-> "boot", boot |-> "mirror", mirror |-> "geometry",
     geometry |-> "merge", merge |-> "done"]

InitPartitions ==
    /\ gp = [stage |-> "file", partitioned_files |-> [a \in MftAddresses |-> NoPartition]]
    /\ rl = IdleRunlist
    /\ sc = IdleScanner
    /\ gc = IdleContent
    /\ rd = IdleSectors
    /\ bn = IdleBestName
    /\ fx = IdleFixup
    /\ mr = IdleMirror
    /\ cl = IdleCluster
    /\ fb = IdleBoundary
    /\ ci = IdleIterator
    /\ heap = <<>>
    /\ parts = [p \in PartNames |-> NewPartition(None)]
    /\ op = [kind |-> "init", p |-> "part"]
    /\ pre = NoPre
    /\ sl = IdleSparse
    /\ am = IdleMatch

\* what an action of get_partitions leaves alone
OnlyPartitions == UNCHANGED <<heap, parts, pre, sl, am, rl, sc, gc, rd, bn, fx, mr, cl, fb, ci>>

\* one FILE record of found_file
ParseFileRecord ==
    /\ gp.stage = "file"
    /\ \E address \in MftAddresses, record_n \in RecordNumbers, hasname \in BOOLEAN :
          gp' = [gp EXCEPT !.partitioned_files =
                    file_record(@, address, record_n, hasname)]
    /\ op' = [kind |-> "file_record", p |-> "part"]
    /\ OnlyPartitions

\* one boot sector of found_boot
ReadBootSector ==
    /\ gp.stage = "boot"
    /\ \E boot \in BootSectors :
          gp' = [gp EXCEPT !.partitioned_files = boot_sector(@, boot)]
    /\ op' = [kind |-> "boot_sector", p |-> "part"]
    /\ OnlyPartitions

\* the repair of one partition from its $MFT mirror. Without a mirror
\* position the record of $MFTMirr is read again at entry.offset: sectors
\* raises TypeError when that offset is None; otherwise sec_per_clus is None
\* at this stage and the partition is skipped, or the record gives no position.
\* The partitions of the model never hold four files, so none is dropped
\* as the image of a mirror.
RepairFromMirror ==
    /\ gp.stage = "mirror"
    /\ \E address \in MftAddresses, mirror \in MirrorsRead :
          LET part == gp.partitioned_files[address]
          IN  /\ part.present
              /\ IF part.mftmirr_pos = None /\ part.files[1].present
                    /\ part.files[1].offset = None
                 THEN gp' = [gp EXCEPT !.stage = "TypeError"]
                 ELSE gp' = [gp EXCEPT !.partitioned_files[address] =
                                mirror_loop(part, mirror, 0)]
    /\ op' = [kind |-> "mirror", p |-> "part"]
    /\ OnlyPartitions

\* the geometry of one partition: find_boundary if the partition has no
\* offset, then finalize_reconstruction if the offset is known:
\* add_indx_entries for the entries of the INDX records read again, whose
\* $FILE_NAME is what try_filename gives; its KeyError leaves get_partitions
FindGeometry ==
    /\ gp.stage = "geometry"
    /\ \E address \in MftAddresses, found \in Boundaries,
          entries \in SUBSET RecordNumbers, dump \in IndexDumps :
          LET part == gp.partitioned_files[address]
              located == IF part.offset = None /\ found[1] # None
                         THEN SetGeometry(part, found[1], found[2])
                         ELSE part
              ghost0 == IF 0 \in entries
                        THEN add_ghost_entry(located, 0, try_filename(dump))
                        ELSE [part |-> located, raised |-> FALSE]
              ghost1 == IF 1 \in entries /\ ~ghost0.raised
                        THEN add_ghost_entry(ghost0.part, 1, try_filename(dump))
                        ELSE ghost0
          IN  /\ part.present
              /\ gp' = IF located.offset = None
                       THEN [gp EXCEPT !.partitioned_files[address] = located]
                       ELSE IF ghost1.raised
                       THEN [gp EXCEPT !.stage = "KeyError",
                                       !.partitioned_files[address] = ghost1.part]
                       ELSE [gp EXCEPT !.partitioned_files[address] = ghost1.part]
    /\ op' = [kind |-> "geometry", p |-> "part"]
    /\ OnlyPartitions

\* the merge of one fragment of a fragmented $MFT: the record of $MFT is
\* read again at entry.offset (TypeError when it is None); the partition
\* found where a later run of its $DATA starts is merged and removed
MergeFragment ==
    /\ gp.stage = "merge"
    /\ \E address \in MftAddresses, position \in MftAddresses :
          LET part == gp.partitioned_files[address]
              piece == gp.partitioned_files[position]
          IN  /\ part.present /\ address # position
              /\ part.files[0].present /\ part.sec_per_clus # None
              /\ IF part.files[0].offset = None
                 THEN gp' = [gp EXCEPT !.stage = "TypeError"]
                 ELSE IF /\ piece.present
                         /\ piece.offset = None \/ piece.offset = part.offset
                         /\ Conflicts(part, piece) = {}
                 THEN gp' = [gp EXCEPT
                                !.partitioned_files[address] = merge_files(part, piece),
                                !.partitioned_files[position] = NoPartition]
                 ELSE gp' = gp
    /\ op' = [kind |-> "merge_fragment", p |-> "part"]
    /\ OnlyPartitions

\* the end of a loop of get_partitions; after the last one it returns
NextStage ==
    /\ gp.stage \in DOMAIN StageAfter
    /\ gp' = [gp EXCEPT !.stage = StageAfter[@]]
    /\ op' = [kind |-> "stage", p |-> "part"]
    /\ OnlyPartitions

NextPartitions ==
    \/ ParseFileRecord
    \/ ReadBootSector
    \/ RepairFromMirror
    \/ FindGeometry
    \/ MergeFragment
    \/ NextStage

SpecPartitions == InitPartitions /\ [][NextPartitions]_vars

-----------------------------------------------------------------------------
(* _apply_fixup_values (recuperabit/fs/ntfs.py): the record is a bytearray, *)
(* the sequence of its bytes; header gives off_fixup and n_entries          *)

\* bytes of a sector (recuperabit/fs/constants.py)
sector_size == 512

\* data[low:high] for 0 <= low and 0 <= high
PySlice(data, low, high) ==
    IF low >= Len(data) \/ high <= low THEN <<>>
    ELSE SubSeq(data, low + 1, IF high < Len(data) THEN high ELSE Len(data))

\* data[low:high] = value on a bytearray, for 0 <= low <= high: the slice
\* is cut to the length of data and replaced by value, of any length
SliceAssign(data, low, high, value) ==
    LET start == IF low < Len(data) THEN low ELSE Len(data)
        stop == IF high < Len(data) THEN high ELSE Len(data)
    IN  SubSeq(data, 1, start) \o value \o SubSeq(data, stop + 1, Len(data))

\* entry[offset + 2*i:offset + 2*(i+1)]
FixupSource(entry, offset, i) == PySlice(entry, offset + 2*i, offset + 2*(i+1))

\* for i in xrange(1, n_entries): pos = sector_size * i;
\*     entry[pos-2:pos] = entry[offset + 2*i:offset + 2*(i+1)]
RECURSIVE FixupLoop(_, _, _, _)
FixupLoop(entry, offset, n_entries, i) ==
    IF i >= n_entries THEN entry
    ELSE LET pos == sector_size * i
         IN  FixupLoop(SliceAssign(entry, pos - 2, pos, FixupSource(entry, offset, i)),
                       offset, n_entries, i + 1)

\* _apply_fixup_values(header, entry): the entry after the call
apply_fixup_values(header, entry) ==
    FixupLoop(entry, header.off_fixup, header.n_entries, 1)

\* the records: every byte is given by its position and a seed, so that the
\* bytes at two positions of interest differ
RecordByte(seed, p) == (p + seed) % 251
Records ==
    { [p \in 1..(n * sector_size) |-> RecordByte(seed, p - 1)] :
        n \in 2..MaxSectors, seed \in {0, 100} }

\* the headers: a fixup array at the usual offsets 42 and 48, one across
\* the end of the first sector, one across the end of a record of two
\* sectors and one behind the record; the usual n_entries is the number of
\* sectors plus one
Headers ==
    [off_fixup : {42, 48, 506, 2 * sector_size - 1, (MaxSectors + 1) * sector_size},
     n_entries : 0..(MaxSectors + 2)]

InitFixup ==
    /\ fx \in [phase : {"call"}, header : Headers, entry : Records]
    /\ rl = IdleRunlist
    /\ sc = IdleScanner
    /\ gc = IdleContent
    /\ rd = IdleSectors
    /\ bn = IdleBestName
    /\ gp = IdlePartitions
    /\ mr = IdleMirror
    /\ cl = IdleCluster
    /\ fb = IdleBoundary
    /\ ci = IdleIterator
    /\ heap = <<>>
    /\ parts = [p \in PartNames |-> NewPartition(None)]
    /\ op = [kind |-> "init", p |-> "part"]
    /\ pre = NoPre
    /\ sl = IdleSparse
    /\ am = IdleMatch

\* the call: fx.entry stays as it was before the call, fx.fixed is the
\* bytearray after it
ApplyFixup ==
    /\ fx.phase = "call"
    /\ fx' = [phase |-> "done", header |-> fx.header, entry |-> fx.entry,
              fixed |-> apply_fixup_values(fx.header, fx.entry)]
    /\ op' = [kind |-> "apply_fixup", p |-> "part"]
    /\ UNCHANGED <<heap, parts, pre, sl, am, rl, sc, gc, rd, bn, gp, mr, cl, fb, ci>>

NextFixup == ApplyFixup

SpecFixup == InitFixup /\ [][NextFixup]_vars

-----------------------------------------------------------------------------
(* NTFSScanner.get_partitions, the loop that repairs every partition from   *)
(* its $MFT mirror and drops the partitions made of the records of a mirror *)
(* (recuperabit/fs/ntfs.py). The files of a partition are given by their    *)
(* keys and by which of them have an offset; a mirror position is set by    *)
(* the boot sector that the partition took its geometry from. mr.image holds *)
(* the records of the image that lie at the keys of partitioned_files.      *)

\* the keys of partitioned_files, and the positions of an $MFT mirror
MirrorAddresses == {10, 20, 30}
MirrorPositions == {None} \cup MirrorAddresses

\* the keys of part.files in the model: records 0 to 3 and one record more
MirrorRecords == 0..4

\* part.files: "none" where the key is missing, "nameless" for the file of
\* a FILE record whose $FILE_NAME gives no usable name (NTFSFile sets no
\* offset then), "file" for the file of a FILE record with a usable name
\* (with an offset); "ghost" is the value of an entry with is_ghost, which
\* no partition holds when the loop starts
FilesOfRecords(files, nameless) ==
    [n \in MirrorRecords |->
        IF n \in nameless THEN "nameless"
        ELSE IF n \in files THEN "file" ELSE "none"]

\* the partitions that the loops over found_file and found_boot leave
MirrorPartitions ==
    {[present |-> FALSE, mftmirr_pos |-> None, files |-> FilesOfRecords({}, {})]}
    \cup
    [present : {TRUE}, mftmirr_pos : MirrorPositions,
     files : {FilesOfRecords({0, 1, 2, 3}, {}), FilesOfRecords({0, 2, 3}, {}),
              FilesOfRecords({0, 1, 2}, {}), FilesOfRecords({0, 1, 2, 3, 4}, {}),
              FilesOfRecords({0}, {}), FilesOfRecords({0, 2}, {1})}]

\* the records of the image at the first four places after each key: the
\* loop over found_file has put the record with number n that lies at
\* key + n * FILE_size into the partition of that key as a file that is not
\* a ghost, and nothing else that parses as a record with $FILE_NAME lies
\* there
ImageOf(partitioned_files) ==
    [q \in MirrorAddresses |->
        [i \in 0..3 |->
            LET f == partitioned_files[q].files[i]
            IN  IF partitioned_files[q].present /\ f = "file"
                THEN MirrorRecord(i, TRUE, root_id)
                ELSE IF partitioned_files[q].present /\ f = "nameless"
                THEN MirrorRecord(i, FALSE, None)
                ELSE NoRecord]]

\* add_from_mft_mirror(part) on part.files; image[i] is what the record at
\* mirrpos + i * FILE_size parses to
RECURSIVE RepairLoop(_, _, _)
RepairLoop(files, image, i) ==
    IF i > 3 THEN files
    ELSE LET parsed == image[i]
         IN  RepairLoop(
                 IF files[i] \in {"none", "ghost"} /\ parsed.valid
                 THEN [files EXCEPT ![parsed.record_n] =
                          IF parsed.hasname THEN "file" ELSE "nameless"]
                 ELSE files,
                 image, i + 1)

\* len(bogus.files) == 4 and max(bogus.files) < 4
LooksLikeMirror(bogus) ==
    /\ Cardinality({n \in MirrorRecords : bogus.files[n] # "none"}) = 4
    /\ \A n \in MirrorRecords : bogus.files[n] # "none" => n < 4

\* one pass of the loop body for the key `address`. Without a mirror
\* position: no entry 1, next key; else the record of $MFTMirr is read at
\* entry.offset, which raises TypeError when the entry has no offset (a
\* ghost or a file without a usable name); such a partition has no
\* sec_per_clus either, so that no position is inferred and the partition
\* is left as it is. With a mirror position: the repair from the records
\* at that position, then the partition at that key is dropped if it looks
\* like a mirror
RepairPartition(run, address) ==
    LET part == run.partitioned_files[address]
        mirrpos == part.mftmirr_pos
        repaired == [run.partitioned_files EXCEPT
                        ![address].files = RepairLoop(@, run.image[mirrpos], 0)]
        dropped == IF /\ mirrpos \in MirrorAddresses
                      /\ repaired[mirrpos].present
                      /\ LooksLikeMirror(repaired[mirrpos])
                   THEN [repaired EXCEPT ![mirrpos].present = FALSE]
                   ELSE repaired
    IN  IF ~part.present THEN run
        ELSE IF mirrpos = None
        THEN IF part.files[1] \in {"ghost", "nameless"}
             THEN [run EXCEPT !.stage = "TypeError"]
             ELSE run
        ELSE [run EXCEPT !.partitioned_files = dropped]

InitMirror ==
    /\ mr \in {[stage |-> "mirror", todo |-> MirrorAddresses,
                 partitioned_files |-> files, image |-> ImageOf(files)] :
                    files \in [MirrorAddresses -> MirrorPartitions]}
    /\ rl = IdleRunlist
    /\ sc = IdleScanner
    /\ gc = IdleContent
    /\ rd = IdleSectors
    /\ bn = IdleBestName
    /\ gp = IdlePartitions
    /\ fx = IdleFixup
    /\ cl = IdleCluster
    /\ fb = IdleBoundary
    /\ ci = IdleIterator
    /\ heap = <<>>
    /\ parts = [p \in PartNames |-> NewPartition(None)]
    /\ op = [kind |-> "init", p |-> "part"]
    /\ pre = NoPre
    /\ sl = IdleSparse
    /\ am = IdleMatch

\* the loop body for one key of list(partitioned_files), in any order of
\* the keys; mr.todo holds the keys not yet visited
VisitMirror ==
    /\ mr.stage = "mirror"
    /\ \E address \in mr.todo :
          mr' = [RepairPartition(mr, address) EXCEPT
                    !.todo = mr.todo \ {address}]
    /\ op' = [kind |-> "visit_mirror", p |-> "part"]
    /\ UNCHANGED <<heap, parts, pre, sl, am, rl, sc, gc, rd, bn, gp, fx, cl, fb, ci>>

\* the loop has visited every key
EndMirror ==
    /\ mr.stage = "mirror"
    /\ mr.todo = {}
    /\ mr' = [mr EXCEPT !.stage = "done"]
    /\ op' = [kind |-> "end_mirror", p |-> "part"]
    /\ UNCHANGED <<heap, parts, pre, sl, am, rl, sc, gc, rd, bn, gp, fx, cl, fb, ci>>

NextMirror ==
    \/ VisitMirror
    \/ EndMirror

SpecMirror == InitMirror /\ [][NextMirror]_vars

-----------------------------------------------------------------------------
(* NTFSScanner.get_partitions, the loop over found_file that clusters the   *)
(* FILE records into partitions (recuperabit/fs/ntfs.py). The image gives   *)
(* one record per sector of found_file; cl.found is what was read so far.   *)

\* the sectors that found_file can hold, and the keys they can give
ClusterPositions == {10, 12, 14}
ClusterOffsets == {8, 10, 12, 14}

\* what parse_file_record returns for a sector: valid or not, with or
\* without '$FILE_NAME' among its attributes, with a usable name or not, the
\* record_n (None when off_fixup < 48)
ParsedRecords ==
    [valid : {FALSE}, has_filename : {FALSE}, hasname : {FALSE}, record_n : {0}]
    \cup
    [valid : {TRUE}, has_filename : {FALSE}, hasname : {FALSE}, record_n : {0}]
    \cup
    [valid : {TRUE}, has_filename : {TRUE}, hasname : BOOLEAN,
     record_n : {None} \cup RecordNumbers]

\* a record without record number filed as record 0
ClusterOffset_NullAsZero(position, parsed) ==
    IF parsed.record_n = None THEN position
    ELSE position - parsed.record_n * FILE_size

\* offset = position - parsed['record_n'] * FILE_size, under
\* `if parsed['record_n'] is not None`
ClusterOffset(position, parsed) ==
    IF parsed.record_n = None THEN None
    ELSE position - parsed.record_n * FILE_size

\* the loop body for one sector of found_file; the records of an
\* $INDEX_ROOT are [], so that add_from_indx_root adds nothing
cluster_record(partitioned_files, position, parsed) ==
    LET offset == ClusterOffset(position, parsed)
        record_n == IF parsed.record_n = None THEN 0 ELSE parsed.record_n
        filed == file_record(partitioned_files, offset, record_n, parsed.hasname)
    IN  IF ~parsed.valid \/ ~parsed.has_filename THEN partitioned_files
        ELSE IF offset = None THEN partitioned_files
        ELSE filed

InitCluster ==
    /\ cl = [stage |-> "file", found |-> {},
             partitioned_files |-> [a \in ClusterOffsets |-> NoPartition]]
    /\ rl = IdleRunlist
    /\ sc = IdleScanner
    /\ gc = IdleContent
    /\ rd = IdleSectors
    /\ bn = IdleBestName
    /\ gp = IdlePartitions
    /\ fx = IdleFixup
    /\ mr = IdleMirror
    /\ fb = IdleBoundary
    /\ ci = IdleIterator
    /\ heap = <<>>
    /\ parts = [p \in PartNames |-> NewPartition(None)]
    /\ op = [kind |-> "init", p |-> "part"]
    /\ pre = NoPre
    /\ sl = IdleSparse
    /\ am = IdleMatch

\* one sector of found_file, a set: every sector is read once
ClusterRecord ==
    /\ cl.stage = "file"
    /\ \E position \in ClusterPositions, parsed \in ParsedRecords :
          /\ \A r \in cl.found : r.position # position
          /\ cl' = [cl EXCEPT
                !.found = @ \cup {[position |-> position, parsed |-> parsed]},
                !.partitioned_files = cluster_record(@, position, parsed)]
    /\ op' = [kind |-> "cluster_record", p |-> "part"]
    /\ UNCHANGED <<heap, parts, pre, sl, am, rl, sc, gc, rd, bn, gp, fx, mr, fb, ci>>

\* the loop has read every sector of found_file
EndCluster ==
    /\ cl.stage = "file"
    /\ cl' = [cl EXCEPT !.stage = "done"]
    /\ op' = [kind |-> "end_cluster", p |-> "part"]
    /\ UNCHANGED <<heap, parts, pre, sl, am, rl, sc, gc, rd, bn, gp, fx, mr, fb, ci>>

NextCluster ==
    \/ ClusterRecord
    \/ EndCluster

SpecCluster == InitCluster /\ [][NextCluster]_vars

-----------------------------------------------------------------------------
(* NTFSScanner.find_boundary and most_likely_sec_per_clus                   *)
(* (recuperabit/fs/ntfs.py). base_pattern is the dict that the runlists of  *)
(* the $INDEX_ALLOCATION attributes of the partition give, text_list is     *)
(* indx_list; a result is [position, perc, spc] with perc a fraction        *)
(* <<numerator, denominator>>.                                              *)

\* 2**i for i in xrange(8)
PowersOfTwo == {1, 2, 4, 8, 16, 32, 64, 128}

\* the number of times x is in the sequence
CountIn(seq, x) == Cardinality({i \in DOMAIN seq : seq[i] = x})

\* sorted(items, key=count, reverse=True) of the keys in the order `keys`:
\* a stable sort, the keys of one count stay in the order of the dict
RECURSIVE MostCommonLoop(_, _)
MostCommonLoop(keys, count) ==
    IF keys = <<>> THEN <<>>
    ELSE LET i == CHOOSE x \in DOMAIN keys :
                    /\ \A y \in DOMAIN keys : count[keys[x]] >= count[keys[y]]
                    /\ \A y \in 1..(x - 1) : count[keys[y]] < count[keys[x]]
         IN  <<keys[i]>> \o
             MostCommonLoop(SubSeq(keys, 1, i - 1) \o SubSeq(keys, i + 1, Len(keys)),
                            count)

\* a dict of the interpreter (Python 2, that ntfs.py is written for): a table
\* of `size` slots, None where a slot is free; the keys are small positive
\* integers, which are their own hash
EmptyDict(size) == [size |-> size, table |-> [s \in 0..(size - 1) |-> None]]

\* the slot of `key`: the slot hash & mask, then the probes
\* i = (i << 2) + i + perturb + 1 with perturb >>= 5 after each of them
RECURSIVE lookdict(_, _, _, _)
lookdict(d, key, i, perturb) ==
    IF d.table[i % d.size] \in {None, key} THEN i % d.size
    ELSE lookdict(d, key, 5 * i + perturb + 1, perturb \div 32)

\* the key put into its slot, the table keeping its size
insertdict(d, key) ==
    [d EXCEPT !.table[lookdict(d, key, key % d.size, key)] = key]

\* the keys in the order in which the dict gives them: the order of the slots
dict_keys(d) ==
    LET slots == [s \in 1..d.size |-> d.table[s - 1]]
        used(k) == k # None
    IN  SelectSeq(slots, used)

\* the keys of a sequence put into the table one after the other
RECURSIVE InsertAll(_, _, _)
InsertAll(d, keys, n) ==
    IF n > Len(keys) THEN d ELSE InsertAll(insertdict(d, keys[n]), keys, n + 1)

\* the size of a table for `minused` keys: 8, doubled until it is larger
RECURSIVE GrownSize(_, _)
GrownSize(newsize, minused) ==
    IF newsize > minused THEN newsize ELSE GrownSize(2 * newsize, minused)

\* a new table, the keys put into it in the order of the old slots
dictresize(d, minused) ==
    InsertAll(EmptyDict(GrownSize(8, minused)), dict_keys(d), 1)

\* d[key] = value: the table grows to four times its keys when a new key
\* fills two thirds of it
PyDict_SetItem(d, key) ==
    LET n_used == Len(dict_keys(d))
        set == insertdict(d, key)
        used == Len(dict_keys(set))
    IN  IF used > n_used /\ used * 3 >= set.size * 2
        THEN dictresize(set, 4 * used) ELSE set

\* counter.update(iterable): self[elem] = self.get(elem, 0) + 1 for each
\* element, from the n-th on
RECURSIVE CounterUpdate(_, _, _)
CounterUpdate(d, iterable, n) ==
    IF n > Len(iterable) THEN d
    ELSE CounterUpdate(PyDict_SetItem(d, iterable[n]), iterable, n + 1)

\* most_likely_sec_per_clus(self): the keys of the Counter by falling count,
\* the keys of one count in the order of the dict
most_likely_sec_per_clus(found_spc) ==
    LET values == PowersOfTwo \cup {found_spc[i] : i \in DOMAIN found_spc}
        count == [v \in values |->
                    CountIn(found_spc, v) + (IF v \in PowersOfTwo THEN 1 ELSE 0)]
        counter == CounterUpdate(CounterUpdate(EmptyDict(8), found_spc, 1),
                                 sorted(PowersOfTwo), 1)
    IN  MostCommonLoop(dict_keys(counter), count)

\* a < b for two fractions with positive denominators
FractionLess(a, b) == a[1] * b[2] < b[1] * a[2]

\* results.sort(key=lambda r: r[1]); results[0]: the sort is stable, so the
\* first of the results with the lowest percentage
FirstAfterSort(results) ==
    results[CHOOSE i \in DOMAIN results :
                /\ \A j \in DOMAIN results :
                      ~FractionLess(results[j].perc, results[i].perc)
                /\ \A j \in 1..(i - 1) :
                      FractionLess(results[i].perc, results[j].perc)]

\* the loop of find_boundary over the multipliers, from the n-th on
RECURSIVE BoundaryLoop(_, _, _, _, _, _, _)
BoundaryLoop(results, min_support, base_pattern, text_list, mft_address, multipliers, n) ==
    IF n > Len(multipliers) THEN results
    ELSE LET sec_per_clus == multipliers[n]
             width == SparseLen(text_list)
             scaled == {i * sec_per_clus : i \in DOMAIN base_pattern}
             delta == CHOOSE x \in scaled : \A y \in scaled : x <= y
             kept == {i \in scaled : i - delta <= width}
             normalized == [j \in {i - delta : i \in kept} |->
                               base_pattern[(j + delta) \div sec_per_clus]]
             solution == approximate_matching(text_list, SparseList(normalized, None),
                                              mft_address + delta, min_support)
             positions == {i - delta : i \in {x \in solution.offsets : x - delta >= 0}}
             found == Append(results,
                             [position |-> CHOOSE x \in positions : TRUE,
                              perc |-> solution.ratio, spc |-> sec_per_clus])
             next_support == IF solution.k > min_support THEN solution.k
                             ELSE min_support
         IN  IF Cardinality(kept) < min_support
             THEN BoundaryLoop(results, min_support, base_pattern, text_list,
                               mft_address, multipliers, n + 1)
             ELSE IF ~solution.found
             THEN BoundaryLoop(results, min_support, base_pattern, text_list,
                               mft_address, multipliers, n + 1)
             ELSE IF Cardinality(positions) # 1
             THEN BoundaryLoop(results, next_support, base_pattern, text_list,
                               mft_address, multipliers, n + 1)
             ELSE IF 4 * solution.ratio[1] > solution.ratio[2] /\ solution.k > 256
             THEN found
             ELSE BoundaryLoop(found, next_support, base_pattern, text_list,
                               mft_address, multipliers, n + 1)

\* the results that find_boundary collects
boundary_results(base_pattern, text_list, mft_address, multipliers) ==
    IF DOMAIN base_pattern = {} THEN <<>>
    ELSE BoundaryLoop(<<>>, 2, base_pattern, text_list, mft_address, multipliers, 1)

\* find_boundary(part, mft_address, multipliers): (offset, sec_per_clus)
find_boundary(base_pattern, text_list, mft_address, multipliers) ==
    LET results == boundary_results(base_pattern, text_list, mft_address, multipliers)
    IN  IF Len(results) > 0
        THEN <<FirstAfterSort(results).position, FirstAfterSort(results).spc>>
        ELSE <<None, None>>

\* the record numbers of the directories, the dicts from cluster positions to
\* them, the lists of sec_per_clus that the boot sectors gave
DirectoryRecords == {1, 2}
BasePatterns == UNION {[S -> DirectoryRecords] : S \in SUBSET (0..2)}
IndxLists == UNION {[S -> DirectoryRecords] : S \in SUBSET (0..MaxIndx)}
FoundSpc == { <<>>, <<2>>, <<4>>, <<3, 8, 8>> }

InitBoundary ==
    /\ fb \in [phase : {"call"}, base_pattern : BasePatterns, text : IndxLists,
               mft_address : {0, 1}, found_spc : FoundSpc]
    /\ rl = IdleRunlist
    /\ sc = IdleScanner
    /\ gc = IdleContent
    /\ rd = IdleSectors
    /\ bn = IdleBestName
    /\ gp = IdlePartitions
    /\ fx = IdleFixup
    /\ mr = IdleMirror
    /\ cl = IdleCluster
    /\ ci = IdleIterator
    /\ heap = <<>>
    /\ parts = [p \in PartNames |-> NewPartition(None)]
    /\ op = [kind |-> "init", p |-> "part"]
    /\ pre = NoPre
    /\ sl = IdleSparse
    /\ am = IdleMatch

\* find_boundary(part, address, most_likely) with
\* most_likely = self.most_likely_sec_per_clus()
FindBoundary ==
    /\ fb.phase = "call"
    /\ LET multipliers == most_likely_sec_per_clus(fb.found_spc)
           text_list == SparseList(fb.text, None)
       IN  fb' = [phase |-> "done", base_pattern |-> fb.base_pattern,
                  text |-> fb.text, mft_address |-> fb.mft_address,
                  found_spc |-> fb.found_spc,
                  multipliers |-> multipliers,
                  results |-> boundary_results(fb.base_pattern, text_list,
                                               fb.mft_address, multipliers),
                  returned |-> find_boundary(fb.base_pattern, text_list,
                                             fb.mft_address, multipliers)]
    /\ op' = [kind |-> "find_boundary", p |-> "part"]
    /\ UNCHANGED <<heap, parts, pre, sl, am, rl, sc, gc, rd, bn, gp, fx, mr, cl, ci>>

NextBoundary == FindBoundary

SpecBoundary == InitBoundary /\ [][NextBoundary]_vars

-----------------------------------------------------------------------------
(* NTFSFile.content_iterator (recuperabit/fs/ntfs.py) as the generator that *)
(* it is: one step is one next() of the iterator, which runs the body up to *)
(* the next yield or to the end. A chunk is modelled by its length in       *)
(* bytes: _padded_bytes pads a short read to the size asked for.            *)

\* max_sectors of recuperabit/fs/constants.py
max_sectors == 1024

\* min(a, b)
PyMin(a, b) == IF a <= b THEN a ELSE b

\* min(max_sectors//spc, diff): the clusters of one chunk of a gap
GapAmount(spc, diff) == PyMin(max_sectors \div spc, diff)

\* an entry with no bound by the size that is left
EntryLength_Unbounded(entry, spc, size) == entry.length * spc * sector_size

\* min(entry['length'] * spc * sector_size, size)
EntryLength(entry, spc, size) == PyMin(entry.length * spc * sector_size, size)

\* min(max_sectors*sector_size, length): the bytes of one chunk of an entry
ChunkAmount(length) == PyMin(max_sectors * sector_size, length)

\* yield a chunk of `amount` bytes, out of a gap or out of a runlist
Yield(s, amount, in_gap) ==
    [s EXCEPT !.chunk = amount, !.total = @ + amount,
              !.gaps = IF in_gap THEN @ + amount ELSE @,
              !.fragment = IF in_gap THEN @ ELSE @ + amount]

\* the body of content_iterator from the place s.pc up to the next yield or
\* to the end of the generator
RECURSIVE Resume(_)
Resume(s) ==
    IF s.pc = "attr"
    THEN \* for attr in datas: diff = attr['start_VCN'] - vcn
         IF s.n > Len(s.datas) THEN [s EXCEPT !.phase = "done"]
         ELSE Resume([s EXCEPT !.pc = "gap", !.diff = s.datas[s.n].start_VCN - s.vcn,
                               !.fragment = 0])
    ELSE IF s.pc = "gap"
    THEN \* while diff > 0: ...; then the runlist of the attribute
         IF s.diff > 0
         THEN LET amount == GapAmount(s.spc, s.diff)
              IN  Yield([s EXCEPT !.vcn = @ + amount, !.diff = @ - amount],
                        sector_size * s.spc * amount, TRUE)
         ELSE IF ~s.datas[s.n].has_runlist
         THEN [s EXCEPT !.phase = "done"]
         ELSE Resume([s EXCEPT !.pc = "entry", !.r = 1, !.clusters_pos = 0,
                               !.size = s.datas[s.n].real_size])
    ELSE IF s.pc = "entry"
    THEN \* for entry in attr['runlist']: ...; vcn = attr['end_VCN'] + 1
         IF s.r > Len(s.datas[s.n].runlist)
         THEN Resume([s EXCEPT !.pc = "attr", !.n = @ + 1,
                               !.vcn = s.datas[s.n].end_VCN + 1])
         ELSE LET entry == s.datas[s.n].runlist[s.r]
                  length == EntryLength(entry, s.spc, s.size)
              IN  IF entry.offset = None
                  THEN Resume([s EXCEPT !.pc = "sparse", !.length = length,
                                        !.size = @ - length])
                  ELSE Resume([s EXCEPT !.pc = "read", !.length = length,
                                        !.size = @ - length, !.offset = 0,
                                        !.clusters_pos = @ + entry.offset])
    ELSE \* while length > 0: of a sparse entry ("sparse") or of a read ("read")
         IF s.length > 0
         THEN LET amount == ChunkAmount(s.length)
              IN  Yield([s EXCEPT !.length = @ - amount,
                                  !.offset = IF s.pc = "read" THEN @ + amount ELSE @],
                        amount, FALSE)
         ELSE Resume([s EXCEPT !.pc = "entry", !.r = @ + 1])

\* content_iterator(partition, image, datas): the generator before its first
\* next(), vcn = 0
NewIterator(spc, datas) ==
    [phase |-> "running", spc |-> spc, datas |-> datas, pc |-> "attr", n |-> 1,
     vcn |-> 0, diff |-> 0, r |-> 1, clusters_pos |-> 0, size |-> 0,
     length |-> 0, offset |-> 0, chunk |-> None, total |-> 0, gaps |-> 0,
     fragment |-> 0]

\* the entries of a runlist, of one cluster and of two: runlist_unpack
\* returns no entry without offset
RunlistEntries == {[length |-> 1, offset |-> 3], [length |-> 2, offset |-> 5]}

\* the runlists of an attribute
IteratorRunlists == UNION {[1..n -> RunlistEntries] : n \in 1..MaxEntriesOfRun}

\* the clusters of a fragment as <<start_VCN, end_VCN>>: the first cluster of
\* the stream and its fourth, so that a list has gaps and overlaps
VcnRanges == {<<0, 0>>, <<3, 3>>}

\* attr['real_size']: less than a cluster and more than max_sectors sectors
RealSizes == {700, 1500000}

\* the non-resident $DATA attributes that get_content hands over; has_runlist
\* is 'runlist' in attr
Fragments ==
    {[start_VCN |-> v[1], end_VCN |-> v[2], real_size |-> size,
      has_runlist |-> TRUE, runlist |-> runlist] :
        v \in VcnRanges, size \in RealSizes, runlist \in IteratorRunlists}
    \cup {[start_VCN |-> v[1], end_VCN |-> v[2], real_size |-> size,
           has_runlist |-> FALSE, runlist |-> <<>>] :
             v \in VcnRanges, size \in RealSizes}

\* sorted(..., key=lambda x: x['start_VCN']) gave the list
FragmentLists ==
    {d \in UNION {[1..n -> Fragments] : n \in 1..MaxFragments} :
        \A i \in 1..(Len(d) - 1) : d[i].start_VCN <= d[i + 1].start_VCN}

\* sec_per_clus of the partition: one sector, max_sectors // 2 and more than
\* max_sectors
ClusterSizes == {1, 512, 2048}

InitIterator ==
    /\ \E spc \in ClusterSizes, datas \in FragmentLists :
          ci = NewIterator(spc, datas)
    /\ rl = IdleRunlist
    /\ sc = IdleScanner
    /\ gc = IdleContent
    /\ rd = IdleSectors
    /\ bn = IdleBestName
    /\ gp = IdlePartitions
    /\ fx = IdleFixup
    /\ mr = IdleMirror
    /\ cl = IdleCluster
    /\ fb = IdleBoundary
    /\ heap = <<>>
    /\ parts = [p \in PartNames |-> NewPartition(None)]
    /\ op = [kind |-> "init", p |-> "part"]
    /\ pre = NoPre
    /\ sl = IdleSparse
    /\ am = IdleMatch

\* next() of the iterator
NextChunk ==
    /\ ci.phase = "running"
    /\ ci' = Resume(ci)
    /\ op' = [kind |-> "next", p |-> "part"]
    /\ UNCHANGED <<heap, parts, pre, sl, am, rl, sc, gc, rd, bn, gp, fx, mr, cl, fb>>

NextIterator == NextChunk

SpecIterator == InitIterator /\ [][NextIterator]_vars

\* the consumer of the iterator keeps calling next() until it ends
SpecIteratorFair == SpecIterator /\ WF_vars(NextIterator)

-----------------------------------------------------------------------------
(* Properties of the tree rebuilder and of merge *)

\* what a partition holds: the keys of files, every file's parent id, and the
\* children and children names of every file and of lost
Contents(h, files, lost) ==
    [keys |-> DictKeys(files),
     parent |-> [k \in DictKeys(files) |-> h[DictGet(files, k)].parent],
     children |-> [k \in DictKeys(files) |-> h[DictGet(files, k)].children],
     names |-> [k \in DictKeys(files) |-> h[DictGet(files, k)].children_names],
     lost_children |-> h[lost].children,
     lost_names |-> h[lost].children_names]

\* rebuild() on p has just returned
Rebuilt(p) == op.kind = "rebuild" /\ op.p = p /\ ~parts[p].err

\* the directories of partition p: the values of files, and lost
Directories(p) == DictValues(parts[p].files) \cup {parts[p].lost}

\* C1: rebuild() called twice in a row leaves the partition with the contents
\* it had after the first call: the same keys, the same parent of every file,
\* the same children and children names of every directory and of lost.
C1_RebuildIdempotent ==
    \A p \in PartNames :
        (Rebuilt(p) /\ pre.op = [kind |-> "rebuild", p |-> p]) =>
            Contents(heap, parts[p].files, parts[p].lost)
                = Contents(pre.heap, pre.files[p], parts[p].lost)

\* C2: after a rebuild() every file of partition.files other than the root is
\* in the children set of exactly one directory among the values of files and
\* lost.
C2_ExactlyOneParent ==
    \A p \in PartNames :
        Rebuilt(p) =>
            \A f \in DictValues(parts[p].files) :
                f # parts[p].root =>
                    Cardinality({d \in Directories(p) : f \in heap[d].children}) = 1

\* C3: rebuild() returns without raising, whatever the files, and afterwards
\* files[5] exists, is a directory, is partition.root and has no parent.
C3_RootAfterRebuild ==
    \A p \in PartNames :
        (op.kind = "rebuild" /\ op.p = p) =>
            /\ ~parts[p].err
            /\ root_id \in DictKeys(parts[p].files)
            /\ heap[DictGet(parts[p].files, root_id)].is_directory
            /\ parts[p].root = DictGet(parts[p].files, root_id)
            /\ heap[parts[p].root].parent = None

\* C4: after any sequence of add_file, merge and rebuild, the children of every
\* directory of a partition (the values of files, and lost) have pairwise
\* distinct names.
C4_ChildNamesDistinct ==
    \A p \in PartNames :
        parts[p].alive =>
            \A d \in Directories(p) :
                \A c1, c2 \in heap[d].children :
                    c1 # c2 => heap[c1].name # heap[c2].name

\* every file's parent is a key of files, or -1, or None
ParentsClosed(p) ==
    \A f \in DictValues(parts[p].files) :
        heap[f].parent \in DictKeys(parts[p].files) \cup {lost_index, None}

\* the parent id `par`, missing before the rebuild, is now a ghost directory
\* whose parent is -1
GhostDirUnderLost(p, par) ==
    /\ par \in DictKeys(parts[p].files)
    /\ LET g == heap[DictGet(parts[p].files, par)]
       IN g.is_ghost /\ g.is_directory /\ g.parent = lost_index

\* the files of p before the last operation whose parent id was not None and
\* not a key of files: <<index, parent id>>
MissingBefore(p) ==
    { <<pre.files[p][i][1], pre.heap[pre.files[p][i][2]].parent>> :
        i \in { j \in DOMAIN pre.files[p] :
                  LET par == pre.heap[pre.files[p][j][2]].parent
                  IN par # None /\ par \notin DictKeys(pre.files[p]) } }

\* C5 as claimed: after rebuild() every file's parent is a key of files, -1 or
\* None, and every parent id that was missing before the rebuild is now a
\* ghost directory whose own parent is -1.
C5_ParentClosure_Claimed ==
    \A p \in PartNames :
        Rebuilt(p) =>
            /\ ParentsClosed(p)
            /\ \A m \in MissingBefore(p) : GhostDirUnderLost(p, m[2])

\* C5: after rebuild() returns, every file's parent is a key of files, -1 or
\* None, and for every file other than the root whose parent id is not the
\* root id and was missing before the rebuild, that id is now a ghost directory
\* whose own parent is -1.
C5_ParentClosure ==
    \A p \in PartNames :
        Rebuilt(p) =>
            /\ ParentsClosed(p)
            /\ \A m \in MissingBefore(p) :
                  (m[1] # root_id /\ m[2] # root_id) => GhostDirUnderLost(p, m[2])

\* a rebuild has synthesized a ghost directory for a missing parent id
C5_Witness ==
    /\ Rebuilt("part")
    /\ \E m \in MissingBefore("part") :
          m[1] # root_id /\ m[2] # root_id /\ GhostDirUnderLost("part", m[2])

\* C6: after merge(part, piece), for every index i of piece.files, part.files[i]
\* is the file of piece when i was absent from part or the entry of part was a
\* ghost, and the original entry of part otherwise; the entries of part whose
\* index is not in piece are unchanged.
C6_MergeResult ==
    op.kind = "merge" =>
        LET dest0 == pre.files["part"]
            src0 == pre.files["piece"]
            dest1 == parts["part"].files
        IN /\ DictKeys(dest1) = DictKeys(dest0) \cup DictKeys(src0)
           /\ \A i \in DictKeys(src0) :
                DictGet(dest1, i) =
                    IF \/ i \notin DictKeys(dest0)
                       \/ pre.heap[DictGet(dest0, i)].is_ghost
                    THEN DictGet(src0, i) ELSE DictGet(dest0, i)
           /\ \A i \in DictKeys(dest0) \ DictKeys(src0) :
                DictGet(dest1, i) = DictGet(dest0, i)

\* a merge has replaced a ghost of part by a file of piece that is no ghost
C6_Witness ==
    /\ op.kind = "merge"
    /\ \E i \in DictKeys(pre.files["part"]) \cap DictKeys(pre.files["piece"]) :
          /\ pre.heap[DictGet(pre.files["part"], i)].is_ghost
          /\ ~heap[DictGet(pre.files["piece"], i)].is_ghost
          /\ DictGet(parts["part"].files, i) = DictGet(pre.files["piece"], i)

\* the last operation replaced a ghost entry of p by a file that is no ghost
GhostReplaced(p) ==
    \E i \in DOMAIN pre.files[p] :
        LET k == pre.files[p][i][1]
        IN /\ pre.heap[pre.files[p][i][2]].is_ghost
           /\ k \in DictKeys(parts[p].files)
           /\ ~heap[DictGet(parts[p].files, k)].is_ghost

\* the last operation left every entry that p had in place
EntriesKept(p) ==
    \A i \in DOMAIN pre.files[p] :
        /\ i \in DOMAIN parts[p].files
        /\ parts[p].files[i] = pre.files[p][i]

\* C7: over any run of the scanner and partition operations (Step A file
\* insertion, ghost insertion from index entries, $MFTMirr repair, rebuild,
\* merge), a ghost entry of a partition is replaced by a file that is no
\* ghost only by merge.
C7_GhostOnlyByMerge ==
    \A p \in PartNames : GhostReplaced(p) => op.kind = "merge"

\* rebuild and add_indx_entries leave every entry of the partition in place
IndxAndRebuildKeep ==
    \A p \in PartNames : op.kind \in {"rebuild", "indx"} => EntriesKept(p)

\* a merge has replaced a ghost entry, which a rebuild had made, by a file
\* of a FILE record
C7_Witness ==
    \E p \in PartNames :
        /\ op.kind = "merge" /\ GhostReplaced(p)
        /\ \E i \in DOMAIN pre.files[p] :
              /\ pre.heap[pre.files[p][i][2]].is_ghost
              /\ pre.heap[pre.files[p][i][2]].is_directory

-----------------------------------------------------------------------------
(* Properties of File.full_path after rebuild *)

\* part[index]: the file of that index, or lost for the index of lost;
\* None when __getitem__ raises KeyError
PartGet(h, P, index) ==
    IF index \in DictKeys(P.files) THEN DictGet(P.files, index)
    ELSE IF index = h[P.lost].index THEN P.lost
    ELSE None

\* full_path(part) of node follows the parent ids: it returns at the object
\* that has no parent, within `steps` objects
RECURSIVE WalkEnds(_, _, _, _)
WalkEnds(h, P, node, steps) ==
    IF node = None THEN None
    ELSE IF h[node].parent = None THEN node
    ELSE IF steps = 0 THEN None
    ELSE WalkEnds(h, P, PartGet(h, P, h[node].parent), steps - 1)

\* the object where the walk from node ends; a walk that does not end within
\* the number of objects of the partition never ends
PathEnd(h, P, node) == WalkEnds(h, P, node, Len(P.files) + 1)

\* the files whose walk comes back to themselves without passing the file
\* of root_id, whose parent rebuild() removes
RECURSIVE ComesBack(_, _, _, _, _)
ComesBack(h, P, node, from, steps) ==
    /\ steps > 0
    /\ from # None
    /\ h[from].parent # None
    /\ h[from].index # root_id
    /\ LET next == PartGet(h, P, h[from].parent)
       IN  next = node \/ ComesBack(h, P, node, next, steps - 1)

OnCycle(h, P, node) == ComesBack(h, P, node, node, Len(P.files) + 1)

\* C22: after rebuild(), following the parent ids from any file reaches the
\* root or lost in finitely many steps, and the files of a cycle of parent
\* ids are children of lost
C22_CyclesBroken ==
    \A p \in PartNames : Rebuilt(p) =>
        /\ \A node \in DictValues(parts[p].files) :
              PathEnd(heap, parts[p], node) \in {parts[p].root, parts[p].lost}
        /\ \A node \in DictValues(pre.files[p]) :
              OnCycle(pre.heap, [parts[p] EXCEPT !.files = pre.files[p]], node)
                  => node \in heap[parts[p].lost].children

\* the walks end after the first rebuild() of a partition whose parent ids
\* had no cycle
PathsEndWithoutCycle ==
    \A p \in PartNames : Rebuilt(p) /\ parts[p].nreb = 1 =>
        \/ \E node \in DictValues(pre.files[p]) :
              OnCycle(pre.heap, [parts[p] EXCEPT !.files = pre.files[p]], node)
        \/ \A node \in DictValues(parts[p].files) :
              PathEnd(heap, parts[p], node) \in {parts[p].root, parts[p].lost}

-----------------------------------------------------------------------------
(* Properties of SparseList *)

\* C10: after construction from any mapping and after any sequence of item
\* assignments and wipe_interval calls, keys is strictly ascending and is the
\* key set of elements, no stored element equals default, and len is the last
\* key plus 1, or 0 when there is no key.
C10_SparseInvariant ==
    /\ \A i, j \in DOMAIN sl.keys : i < j => sl.keys[i] < sl.keys[j]
    /\ {sl.keys[i] : i \in DOMAIN sl.keys} = DOMAIN sl.elements
    /\ \A k \in DOMAIN sl.elements : sl.elements[k] # sl.default
    /\ SparseLen(sl) = IF DOMAIN sl.elements = {} THEN 0
                       ELSE (CHOOSE k \in DOMAIN sl.elements :
                                \A x \in DOMAIN sl.elements : x <= k) + 1

\* the positions a get is made at
Positions == 0..(MaxKey + 1)

\* the dense array resets position x on wipe_interval(bottom, top)
DenseWiped(bottom, top, x) ==
    IF bottom <= top THEN bottom <= x /\ x < top
    ELSE ~(top <= x /\ x < bottom)

\* C11: every get on a SparseList returns what a dense default-filled array
\* returns after the same operations: after construction the value of the
\* mapping or default, after set(index, item) the item at index and the
\* former value elsewhere, after wipe_interval(bottom, top) default at the
\* positions in [bottom, top) when bottom <= top, or outside [top, bottom)
\* when bottom > top, and the former value elsewhere.
C11_DenseRefinement ==
    \A x \in Positions :
        /\ op.kind = "init" =>
              SparseGet(sl, x) = IF x \in DOMAIN sl.elements
                                 THEN sl.elements[x] ELSE sl.default
        /\ op.kind = "setitem" =>
              SparseGet(sl, x) = IF x = op.index THEN op.item
                                 ELSE SparseGet(op.was, x)
        /\ op.kind = "wipe_interval" =>
              SparseGet(sl, x) = IF DenseWiped(op.bottom, op.top, x)
                                 THEN sl.default ELSE SparseGet(op.was, x)

\* a wipe_interval with bottom > top has reset one position and kept another
C11_Witness ==
    /\ op.kind = "wipe_interval" /\ op.bottom > op.top
    /\ \E x, y \in Positions :
          /\ SparseGet(op.was, x) # sl.default /\ SparseGet(sl, x) = sl.default
          /\ SparseGet(sl, y) # sl.default

-----------------------------------------------------------------------------
(* Properties of runlist_unpack *)

\* the runs of the round trip: a length, and an offset delta of one byte
\* (1, 2, -128), of two bytes (258, -32767) or none (a sparse run)
Runs == [length : {1, 2}, offset : {None, 1, 2, -128, 258, -32767}]

RunSeqs == UNION {[1..n -> Runs] : n \in 0..MaxRuns}

\* the NTFS bytes of one run: the header byte (offset bytes * 16 + length
\* bytes), the length, then the offset delta in two's complement, both
\* little-endian; a sparse run has no offset bytes
RunBytes(run) ==
    IF run.offset = None THEN <<1, run.length>>
    ELSE IF run.offset \in -128..127 THEN <<17, run.length, run.offset % 256>>
    ELSE <<33, run.length, run.offset % 256, (run.offset \div 256) % 256>>

RECURSIVE RunlistBytesOf(_)
RunlistBytesOf(runs) ==
    IF runs = <<>> THEN <<0>>
    ELSE RunBytes(Head(runs)) \o RunlistBytesOf(Tail(runs))

\* C12: the runs decoded from the encoding of a sequence of runs, a zero
\* header byte after them, are that sequence, sparse runs included
C12_RunlistRoundTrip ==
    rl.done => \A runs \in RunSeqs :
                   rl.runlist = RunlistBytesOf(runs) => rl.pieces = runs

\* the round trip of the sequences without a sparse run
RunlistRoundTripDense ==
    rl.done => \A runs \in RunSeqs :
                   /\ rl.runlist = RunlistBytesOf(runs)
                   /\ \A i \in DOMAIN runs : runs[i].offset # None
                   => rl.pieces = runs

-----------------------------------------------------------------------------
(* Properties of NTFSScanner.feed *)

\* the sector ends with 0x55 0xAA and has "NTFS" in its first 8 bytes
BootSector(sector) ==
    /\ Len(sector) >= 2
    /\ sector[Len(sector) - 1] = 85 /\ sector[Len(sector)] = 170
    /\ \E i \in 1..5 :
          /\ i + 3 <= Len(sector)
          /\ <<sector[i], sector[i + 1], sector[i + 2], sector[i + 3]>> = StrNTFS

\* the sector starts with "FILE" or "BAAD"
FileSector(sector) ==
    /\ Len(sector) >= 4
    /\ <<sector[1], sector[2], sector[3], sector[4]>> \in {StrFILE, StrBAAD}

\* the sector starts with "INDX"
IndxSector(sector) ==
    /\ Len(sector) >= 4
    /\ <<sector[1], sector[2], sector[3], sector[4]>> = StrINDX

\* C13: a feed adds its index to found_boot when the sector is a boot sector,
\* otherwise to found_file when it starts with FILE or BAAD, otherwise to
\* found_indx when it starts with INDX, and leaves the other tables as they
\* were; a sector of no kind changes no table and None is returned
C13_FeedClassifies ==
    sc.fed # <<>> =>
        LET index == sc.fed[Len(sc.fed)][1]
            sector == sc.fed[Len(sc.fed)][2]
        IN  CASE BootSector(sector) ->
                   /\ sc.found_boot = Append(sc.was.found_boot, index)
                   /\ sc.found_file = sc.was.found_file
                   /\ sc.found_indx = sc.was.found_indx
                   /\ sc.res # "None"
              [] ~BootSector(sector) /\ FileSector(sector) ->
                   /\ sc.found_boot = sc.was.found_boot
                   /\ sc.found_file = sc.was.found_file \cup {index}
                   /\ sc.found_indx = sc.was.found_indx
                   /\ sc.res # "None"
              [] ~BootSector(sector) /\ ~FileSector(sector) /\ IndxSector(sector) ->
                   /\ sc.found_boot = sc.was.found_boot
                   /\ sc.found_file = sc.was.found_file
                   /\ sc.found_indx = sc.was.found_indx \cup {index}
                   /\ sc.res # "None"
              [] OTHER ->
                   /\ Tables(sc) = sc.was
                   /\ sc.res = "None"

\* a sector that starts with FILE and is a boot sector was fed after a FILE
\* record and an INDX record, and went to found_boot only
C13_Witness ==
    /\ Len(sc.fed) = 3
    /\ FileSector(sc.fed[3][2]) /\ BootSector(sc.fed[3][2])
    /\ sc.was.found_file = {sc.fed[3][1]} /\ sc.was.found_indx # {}
    /\ sc.found_boot = <<sc.fed[3][1]>>
    /\ sc.found_file = sc.was.found_file /\ sc.res = "NTFS boot sector"

\* the scanner after the feeds of pairs, in their order
RECURSIVE FeedEach(_, _)
FeedEach(self, pairs) ==
    IF pairs = <<>> THEN self
    ELSE FeedEach(feed(self, Head(pairs)[1], Head(pairs)[2]), Tail(pairs))

\* the sequences of at most MaxFeeds feeds of the pairs that were fed, each
\* fed at least once
Refeeds ==
    LET fed == {sc.fed[i] : i \in DOMAIN sc.fed}
    IN  {s \in UNION {[1..n -> fed] : n \in 0..MaxFeeds} :
            {s[i] : i \in DOMAIN s} = fed}

\* the indexes of the boot sectors among pairs, in their order
RECURSIVE BootIndexes(_)
BootIndexes(pairs) ==
    IF pairs = <<>> THEN <<>>
    ELSE IF BootSector(Head(pairs)[2])
    THEN <<Head(pairs)[1]>> \o BootIndexes(Tail(pairs))
    ELSE BootIndexes(Tail(pairs))

\* C14 as claimed: the three tables depend only on the set of the pairs fed,
\* whatever their order and however often each was fed
C14_TablesOfSet_Claimed ==
    \A s \in Refeeds : Tables(FeedEach(NewScanner, s)) = Tables(sc)

\* C14: found_file and found_indx depend only on the set of the pairs fed;
\* found_boot lists the indexes of the boot sectors fed, once for each feed
\* and in the order of the feeds
C14_TablesOfSet ==
    /\ \A s \in Refeeds :
          /\ FeedEach(NewScanner, s).found_file = sc.found_file
          /\ FeedEach(NewScanner, s).found_indx = sc.found_indx
    /\ sc.found_boot = BootIndexes(sc.fed)

\* a boot sector was fed, then a FILE record, then the boot sector again
C14_Witness ==
    /\ Len(sc.fed) = 3
    /\ sc.fed[1] = sc.fed[3] /\ BootSector(sc.fed[1][2])
    /\ FileSector(sc.fed[2][2]) /\ sc.found_file = {sc.fed[2][1]}
    /\ sc.found_boot = <<sc.fed[1][1], sc.fed[1][1]>>

-----------------------------------------------------------------------------
(* Properties of get_content *)

\* get_content returned a content
HasContent == gc.phase = "done" /\ gc.result.kind \in {"str", "iterator"}

\* C15: the bytes of a content come only from the $DATA attributes that have
\* the stream name of the file, in ascending start_VCN
C15_OnlyOwnStream ==
    HasContent =>
        LET chunks == gc.result.chunks
            datas == gc.parsed.datas
        IN  /\ \A k \in DOMAIN chunks :
                  chunks[k] # 0 => datas[chunks[k]].name = gc.file.ads
            /\ \A k, l \in DOMAIN chunks :
                  k < l /\ chunks[k] # 0 /\ chunks[l] # 0
                  => datas[chunks[k]].start_VCN <= datas[chunks[l]].start_VCN

\* the $DATA attributes of the record that have the stream name of the file
OwnDatas == {i \in DOMAIN gc.parsed.datas : gc.parsed.datas[i].name = gc.file.ads}

\* one of the four cases: a ghost, no $DATA attribute of the stream, one of
\* them compressed, or all of them non-resident with sec_per_clus unknown
NullCase ==
    \/ gc.file.is_ghost
    \/ OwnDatas = {}
    \/ \E i \in OwnDatas : gc.parsed.datas[i].flags % 2 = 1
    \/ /\ \A i \in OwnDatas : gc.parsed.datas[i].non_resident
       /\ gc.sec_per_clus = None

\* C16: in each of the four cases get_content returns None and raises nothing
C16_NullWithoutRaising ==
    gc.phase = "done" /\ NullCase => gc.result = Returned("None", <<>>)

\* the four cases for the files that have an offset
NullWithOffset ==
    gc.phase = "done" /\ NullCase /\ (gc.file.is_ghost \/ gc.file.offset # None)
    => gc.result = Returned("None", <<>>)

-----------------------------------------------------------------------------
(* Properties of sectors *)

\* the bytes of the image from offset * bsize on, at most size * bsize
Available ==
    LET pos == rd.offset * rd.bsize
        n == rd.size * rd.bsize
    IN  [i \in 1..(IF Len(rd.image) - pos < 0 THEN 0
                   ELSE IF Len(rd.image) - pos < n THEN Len(rd.image) - pos
                   ELSE n) |-> rd.image[pos + i]]

\* the seek or the read of the call failed
ReadFailed == rd.seek_error \/ rd.read_error

\* C17 as claimed: with fill, sectors returns size * bsize bytes, the bytes
\* read and zeros after them
C17_SectorsFill_Claimed ==
    rd.phase = "done" /\ rd.fill =>
        /\ ~rd.result.none
        /\ Len(rd.result.dump) = rd.size * rd.bsize
        /\ \A i \in DOMAIN rd.result.dump :
              rd.result.dump[i] = IF ~ReadFailed /\ i <= Len(Available)
                                  THEN Available[i] ELSE 0

\* C17: with fill, sectors returns size * bsize zero bytes when the seek or
\* the read fails; otherwise it returns the bytes that the image holds from
\* offset * bsize on, at most size * bsize of them and nothing after them
C17_SectorsFill ==
    rd.phase = "done" /\ rd.fill =>
        /\ ~rd.result.none
        /\ ReadFailed => rd.result.dump = [i \in 1..(rd.size * rd.bsize) |-> 0]
        /\ ~ReadFailed => rd.result.dump = Available

\* a read of four bytes, two of them past the end of the image, returned
\* the two bytes of the image
C17_Witness ==
    /\ rd.phase = "done" /\ rd.fill /\ ~ReadFailed
    /\ rd.size * rd.bsize = 4 /\ rd.offset * rd.bsize + 2 = Len(rd.image)
    /\ Len(rd.result.dump) = 2

-----------------------------------------------------------------------------
(* Properties of best_name *)

\* the namespaces of the entries handed to best_name
EntryNamespaces == {bn.entries[i][1] : i \in DOMAIN bn.entries}

\* best_name returned the name of an entry of the namespace
ReturnedOf(namespace) ==
    /\ ~bn.result.none
    /\ \E i \in DOMAIN bn.entries :
          bn.entries[i][1] = namespace /\ bn.entries[i][2] = bn.result.name

\* C20: best_name returns None for no entry, the name of an entry of
\* namespace 3 when there is one, and otherwise the name of an entry of the
\* smallest namespace
C20_BestName ==
    bn.phase = "done" =>
        /\ bn.entries = <<>> => bn.result.none
        /\ 3 \in EntryNamespaces => ReturnedOf(3)
        /\ bn.entries # <<>> /\ 3 \notin EntryNamespaces =>
              \E n \in EntryNamespaces :
                  /\ \A m \in EntryNamespaces : n <= m
                  /\ ReturnedOf(n)

\* the same for the entries of the namespaces 0 to 3 whose names are not
\* empty
BestNameDefined ==
    /\ bn.phase = "done"
    /\ \A i \in DOMAIN bn.entries : bn.entries[i][1] <= 3 /\ bn.entries[i][2] # <<>>
    => /\ bn.entries = <<>> => bn.result.none
       /\ 3 \in EntryNamespaces => ReturnedOf(3)
       /\ bn.entries # <<>> /\ 3 \notin EntryNamespaces =>
             \E n \in EntryNamespaces :
                 /\ \A m \in EntryNamespaces : n <= m
                 /\ ReturnedOf(n)

\* the same for the entries whose names are not empty
BestNameNotEmpty ==
    /\ bn.phase = "done"
    /\ \A i \in DOMAIN bn.entries : bn.entries[i][2] # <<>>
    => /\ 3 \in EntryNamespaces => ReturnedOf(3)

-----------------------------------------------------------------------------
(* Properties of get_partitions *)

\* the partitions that partitioned_files holds
FoundPartitions == {a \in MftAddresses : gp.partitioned_files[a].present}

\* the files of a partition
FilesOf(a) ==
    {gp.partitioned_files[a].files[n] :
        n \in {m \in RecordNumbers : gp.partitioned_files[a].files[m].present}}

\* C18: in the partitions that get_partitions returns, a file has no offset
\* if and only if it is a ghost, and the offset of a file that is not a
\* ghost is the sector of its FILE record
C18_OffsetUnlessGhost ==
    gp.stage = "done" =>
        \A a \in FoundPartitions : \A f \in FilesOf(a) :
            /\ f.offset = None <=> f.is_ghost
            /\ ~f.is_ghost => f.offset = f.record_at

\* the same for the files whose record has a usable name, and the ghosts
OffsetOfNamed ==
    gp.stage = "done" =>
        \A a \in FoundPartitions : \A f \in FilesOf(a) :
            /\ f.is_ghost => f.offset = None
            /\ ~f.is_ghost /\ f.offset # None => f.offset = f.record_at

\* C19: during and after get_partitions, a partition that is recoverable
\* has an offset and a sec_per_clus
C19_RecoverableGeometry ==
    \A a \in FoundPartitions :
        gp.partitioned_files[a].recoverable =>
            /\ gp.partitioned_files[a].offset # None
            /\ gp.partitioned_files[a].sec_per_clus # None

\* get_partitions returned one partition that a boot sector's backup made
\* recoverable, after the merge of a fragment, and one that find_boundary
\* made recoverable
C19_Witness ==
    \/ /\ gp.stage = "done"
       /\ FoundPartitions = {10}
       /\ gp.partitioned_files[10].recoverable
       /\ gp.partitioned_files[10].offset = 2
       /\ gp.partitioned_files[10].files[1].record_at = 22
    \/ /\ gp.stage = "done"
       /\ FoundPartitions = {10, 20}
       /\ gp.partitioned_files[20].recoverable
       /\ gp.partitioned_files[20].sec_per_clus = 8
       /\ ~gp.partitioned_files[10].recoverable

\* the fragment at q holds a file that is not a ghost at an index where the
\* partition at a holds a file that is not a ghost
WouldOverwrite(a, q) ==
    \E n \in RecordNumbers :
        /\ gp.partitioned_files[q].files[n].present
        /\ ~gp.partitioned_files[q].files[n].is_ghost
        /\ gp.partitioned_files[a].files[n].present
        /\ ~gp.partitioned_files[a].files[n].is_ghost

\* the files of the partition at a after the merge rule took the files of
\* the fragment at q: a file of the fragment is inserted where the partition
\* has no file or a ghost
MergedByRule(a, q) ==
    [n \in RecordNumbers |->
        IF /\ gp.partitioned_files[q].files[n].present
           /\ \/ ~gp.partitioned_files[a].files[n].present
              \/ gp.partitioned_files[a].files[n].is_ghost
        THEN gp.partitioned_files[q].files[n]
        ELSE gp.partitioned_files[a].files[n]]

\* C23: in the merge of fragments, a fragment that holds a file that is not
\* a ghost at an index where the primary partition holds one leaves the
\* files of the primary as they are and stays in the map under its key; a
\* fragment that is merged gives its files to the primary by the merge rule
\* and its key is removed from the map
C23_MergeOrRetain ==
    [][gp.stage = "merge" /\ gp'.stage = "merge" =>
        \A a, q \in FoundPartitions : a # q =>
            /\ WouldOverwrite(a, q) =>
                  /\ gp'.partitioned_files[a].files = gp.partitioned_files[a].files
                  /\ gp'.partitioned_files[q] = gp.partitioned_files[q]
            /\ ~gp'.partitioned_files[q].present =>
                  /\ ~WouldOverwrite(a, q)
                  /\ gp'.partitioned_files[a].present
                  /\ gp'.partitioned_files[a].files = MergedByRule(a, q)]_vars

\* a fragment was merged: the partition that is left holds record 0 of its
\* own $MFT and record 1 of the fragment found at sector 20
C23_Witness ==
    /\ gp.stage = "merge"
    /\ op.kind = "merge_fragment"
    /\ FoundPartitions = {10}
    /\ gp.partitioned_files[10].files[0].record_at = 10
    /\ gp.partitioned_files[10].files[1].record_at = 22
    /\ ~gp.partitioned_files[10].files[1].is_ghost

\* a fragment was kept: both partitions hold a record 0 that is not a ghost
\* after a step of the merge
FragmentKept ==
    /\ gp.stage = "merge"
    /\ op.kind = "merge_fragment"
    /\ FoundPartitions = {10, 20}
    /\ gp.partitioned_files[10].sec_per_clus # None
    /\ gp.partitioned_files[20].offset = None
    /\ \A a \in {10, 20} : /\ gp.partitioned_files[a].files[0].present
                           /\ ~gp.partitioned_files[a].files[0].is_ghost

-----------------------------------------------------------------------------
(* Properties of _apply_fixup_values *)

\* the two bytes that end sector i of the record after the call
SectorEnd(i) == PySlice(fx.fixed, sector_size * i - 2, sector_size * i)

\* entry i of the fixup array as the record held it before the call
FixupEntry(i) ==
    PySlice(fx.entry, fx.header.off_fixup + 2*i, fx.header.off_fixup + 2*i + 2)

\* C21: after _apply_fixup_values(header, entry), for every i with
\* 1 <= i < n_entries the two bytes at [512*i - 2, 512*i) of the record are
\* the two bytes that the fixup array held at
\* [off_fixup + 2*i, off_fixup + 2*i + 2) before the call
C21_FixupApplied ==
    fx.phase = "done" =>
        \A i \in 1..(fx.header.n_entries - 1) :
            Len(SectorEnd(i)) = 2 /\ SectorEnd(i) = FixupEntry(i)

\* the fixup array lies in the first sector before its last two bytes, and
\* the record has the n_entries - 1 sectors that the header tells
FixupInFirstSector ==
    /\ fx.header.off_fixup + 2 * fx.header.n_entries <= sector_size - 2
    /\ sector_size * (fx.header.n_entries - 1) <= Len(fx.entry)

\* the same for such a header, where the record also keeps its length
FixupAppliedInFirstSector ==
    fx.phase = "done" /\ FixupInFirstSector =>
        /\ Len(fx.fixed) = Len(fx.entry)
        /\ \A i \in 1..(fx.header.n_entries - 1) :
              Len(SectorEnd(i)) = 2 /\ SectorEnd(i) = FixupEntry(i)

\* a call whose header is of that kind, with two sectors or more to fix
FixupInFirstSectorDone ==
    fx.phase = "done" /\ FixupInFirstSector /\ fx.header.n_entries >= 3

\* what the call does to the length of the record
FixupKeepsLength == fx.phase = "done" => Len(fx.fixed) = Len(fx.entry)

-----------------------------------------------------------------------------
(* Properties of the $MFTMirr repair loop *)

\* the keys of the map
MirrorMap(run) == {a \in MirrorAddresses : run.partitioned_files[a].present}

\* the files of the partition are exactly records 0, 1, 2 and 3
ExactlyFirstFour(part) ==
    {n \in MirrorRecords : part.files[n] # "none"} = {0, 1, 2, 3}

\* the key q holds the records of the mirror of a partition of the map
MirrorOfSomeone(run, q) ==
    /\ q \in MirrorMap(run)
    /\ ExactlyFirstFour(run.partitioned_files[q])
    /\ \E p \in MirrorMap(run) : run.partitioned_files[p].mftmirr_pos = q

\* C24: after the $MFTMirr repair the map holds no partition whose files are
\* exactly records 0 to 3 and whose key is the mftmirr_pos of a partition of
\* the map, in whatever order the partitions were visited
C24_NoMirrorPartition ==
    mr.stage = "done" => \A q \in MirrorAddresses : ~MirrorOfSomeone(mr, q)

\* a partition is removed in a step of the loop only if its files are then
\* exactly records 0 to 3 and its key is the mftmirr_pos of a partition of
\* the map before the step
RemovedAsMirrorOnly ==
    [][mr.stage = "mirror" =>
        \A q \in MirrorMap(mr) \ MirrorMap(mr') :
            \E p \in MirrorMap(mr) : mr.partitioned_files[p].mftmirr_pos = q]_vars

\* the partition that a visited partition points to with its mftmirr_pos is
\* never left, right after the visit, with exactly records 0 to 3
RemovedAtVisit ==
    [][mr.stage = "mirror" /\ mr'.stage = "mirror" =>
        \A p \in (mr.todo \ mr'.todo) \cap MirrorMap(mr') :
            LET q == mr'.partitioned_files[p].mftmirr_pos
            IN  q \in MirrorMap(mr') => ~ExactlyFirstFour(mr'.partitioned_files[q])]_vars

\* the loop has dropped a partition
MirrorDropped ==
    /\ mr.stage = "done"
    /\ MirrorMap(mr) = {10}
    /\ mr.partitioned_files[10].mftmirr_pos = 20

-----------------------------------------------------------------------------
(* Properties of the clustering of FILE records *)

\* the records read that parse as valid, have a $FILE_NAME and a record_n
Clustered ==
    {r \in cl.found : /\ r.parsed.valid /\ r.parsed.has_filename
                      /\ r.parsed.record_n # None}

\* pos - 2 * record_n
MftOffset(r) == r.position - 2 * r.parsed.record_n

\* the keys of the map
ClusterMap == {a \in ClusterOffsets : cl.partitioned_files[a].present}

\* C25: after the loop over found_file the map holds one partition per
\* value pos - 2*record_n of the records that are valid and have a
\* $FILE_NAME and a record_n, keyed by that value, which is its mft_pos; the
\* partition holds an entry that is not a ghost at record_n for each such
\* record, and a record without record_n adds no file
C25_Clustering ==
    cl.stage = "done" =>
        /\ ClusterMap = {MftOffset(r) : r \in Clustered}
        /\ \A a \in ClusterMap : cl.partitioned_files[a].mft_pos = a
        /\ \A r \in Clustered :
              LET f == cl.partitioned_files[MftOffset(r)].files[r.parsed.record_n]
              IN  f.present /\ ~f.is_ghost /\ f.record_at = r.position
        /\ \A a \in ClusterMap : \A n \in RecordNumbers :
              LET f == cl.partitioned_files[a].files[n]
              IN  f.present /\ ~f.is_ghost =>
                     \E r \in Clustered : MftOffset(r) = a /\ r.parsed.record_n = n

\* the loop has read a record without record_n and two records of one $MFT
C25_Witness ==
    /\ cl.stage = "done"
    /\ \E r \in cl.found : r.parsed.has_filename /\ r.parsed.record_n = None
    /\ \E r, s \in Clustered :
          /\ r.position = 10 /\ r.parsed.record_n = 0
          /\ s.position = 12 /\ s.parsed.record_n = 1
    /\ ClusterMap = {10}

-----------------------------------------------------------------------------
(* Properties of approximate_matching *)

\* the number of pattern keys p with text[o + p] = pattern[p]
Aligned(o) ==
    Cardinality({p \in DOMAIN am.pattern.elements :
                   /\ o + p \in DOMAIN am.records.elements
                   /\ am.records.elements[o + p] = am.pattern.elements[p]})

\* the number of pattern keys
PatternKeys == Cardinality(DOMAIN am.pattern.elements)

\* C8: when the pattern is not empty and lies verbatim in the text at an
\* offset o <= stop, and k_min is at most the number of pattern keys, the
\* result is not None, its offsets contain o and its support is the number of
\* pattern keys.
C8_VerbatimMatchFound ==
    (am.phase = "done" /\ PatternKeys > 0 /\ am.k <= PatternKeys) =>
        \A o \in 0..am.stop :
            Aligned(o) = PatternKeys =>
                /\ am.result.found
                /\ o \in am.result.offsets
                /\ am.result.k = PatternKeys

\* C9: for every result [offsets, k, ratio] that is not None and every o in
\* offsets, at least k pattern keys p have text[o + p] = pattern[p]; so k is
\* at most the number of pattern keys and ratio is at most 1.
C9_SupportIsReal ==
    (am.phase = "done" /\ am.result.found) =>
        /\ \A o \in am.result.offsets : Aligned(o) >= am.result.k
        /\ am.result.k <= PatternKeys
        /\ am.result.ratio[1] <= am.result.ratio[2]

\* approximate_matching has called preprocess_pattern(pattern)
Preprocessed ==
    am.phase = "done" /\ SparseLen(am.records) > 0 /\ SparseLen(am.pattern) > 0

\* the mapping that preprocess_pattern returns for the pattern of the call
Lookup == preprocess_pattern(am.pattern)

\* the values of the list of a symbol
LookupOffsets(name) == {Lookup[name][i] : i \in DOMAIN Lookup[name]}

\* C26: preprocess_pattern returns a mapping in which, for every key k of
\* the pattern, msize - k - 1 is in the list of the symbol pattern[k], and in
\* which no list holds another value, also when a symbol is equal to an
\* offset of its list
C26_LookupComplete ==
    Preprocessed =>
        /\ \A k \in DOMAIN am.pattern.elements :
              /\ am.pattern.elements[k] \in DOMAIN Lookup
              /\ SparseLen(am.pattern) - k - 1 \in LookupOffsets(am.pattern.elements[k])
        /\ \A name \in DOMAIN Lookup : \A off \in LookupOffsets(name) :
              \E k \in DOMAIN am.pattern.elements :
                  /\ am.pattern.elements[k] = name
                  /\ off = SparseLen(am.pattern) - k - 1

\* no symbol of the pattern is equal to the offset stored last in its list
\* when the next key of the symbol is read
NoSymbolIsItsOffset ==
    \A k \in DOMAIN am.pattern.elements :
        \A j \in DOMAIN am.pattern.elements :
            j < k /\ am.pattern.elements[j] = am.pattern.elements[k] =>
                am.pattern.elements[k] # SparseLen(am.pattern) - j - 1

\* the same for the patterns without such a symbol
LookupCompleteOtherwise ==
    Preprocessed /\ NoSymbolIsItsOffset =>
        /\ \A k \in DOMAIN am.pattern.elements :
              /\ am.pattern.elements[k] \in DOMAIN Lookup
              /\ SparseLen(am.pattern) - k - 1 \in LookupOffsets(am.pattern.elements[k])
        /\ \A name \in DOMAIN Lookup : \A off \in LookupOffsets(name) :
              \E k \in DOMAIN am.pattern.elements :
                  /\ am.pattern.elements[k] = name
                  /\ off = SparseLen(am.pattern) - k - 1

\* a pattern of that kind with one symbol at two keys
LookupOfRepeatedSymbol ==
    /\ Preprocessed /\ NoSymbolIsItsOffset
    /\ \E j, k \in DOMAIN am.pattern.elements :
          j < k /\ am.pattern.elements[j] = am.pattern.elements[k]

-----------------------------------------------------------------------------
(* Properties of find_boundary                                              *)

\* find_boundary has returned and several candidates gave exactly one offset
SeveralCandidates == fb.phase = "done" /\ Len(fb.results) >= 2

\* the candidates that no other candidate precedes by percentage, then by
\* sec_per_clus
BestCandidates(results) ==
    {i \in DOMAIN results : \A j \in DOMAIN results :
        \/ FractionLess(results[i].perc, results[j].perc)
        \/ /\ ~FractionLess(results[j].perc, results[i].perc)
           /\ results[i].spc <= results[j].spc}

\* C27: when several candidate sec_per_clus values each yield exactly one
\* non-negative offset, find_boundary returns the offset and sec_per_clus of
\* the candidate with the lowest match percentage and, among candidates of
\* equal percentage, of the one with the smallest sec_per_clus, whatever the
\* order of the multipliers.
C27_TiesBySecPerClus ==
    SeveralCandidates =>
        \E i \in BestCandidates(fb.results) :
            fb.returned = <<fb.results[i].position, fb.results[i].spc>>

\* what the code does: the returned candidate has the lowest percentage and
\* is the first such candidate in the order of the multipliers
FirstOfLowestPercentage ==
    SeveralCandidates =>
        \E i \in DOMAIN fb.results :
            /\ fb.returned = <<fb.results[i].position, fb.results[i].spc>>
            /\ \A j \in DOMAIN fb.results :
                  ~FractionLess(fb.results[j].perc, fb.results[i].perc)
            /\ \A j \in 1..(i - 1) :
                  FractionLess(fb.results[i].perc, fb.results[j].perc)

\* two candidates tie on the percentage and the larger sec_per_clus is returned
TieReturnsLargerSpc ==
    /\ SeveralCandidates
    /\ \E i, j \in DOMAIN fb.results :
          /\ fb.results[i].perc = fb.results[j].perc
          /\ fb.results[j].spc < fb.results[i].spc
          /\ fb.returned = <<fb.results[i].position, fb.results[i].spc>>

-----------------------------------------------------------------------------
(* Properties of the iterator of content_iterator                           *)

\* C28: for any list of non-resident $DATA fragments with finite runlists and
\* any sec_per_clus >= 1, larger than max_sectors or not, the iterator yields
\* finitely many chunks and then ends: a consumer that keeps calling next()
\* reaches the end, the loop that fills a gap advancing on every iteration.
C28_IteratorEnds == <>(ci.phase = "done")

\* the iterator ends when a cluster is no longer than max_sectors
EndsWithinMaxSectors == (ci.spc <= max_sectors) ~> (ci.phase = "done")

\* the loop that fills a gap has yielded an empty chunk and has not advanced
GapWithoutProgress ==
    /\ ci.phase = "running"
    /\ ci.pc = "gap"
    /\ ci.diff > 0
    /\ ci.chunk = 0
    /\ Resume(ci) = ci

\* no gap is filled without progress when a cluster is no longer than
\* max_sectors
GapProgressWithinMaxSectors == ci.spc <= max_sectors => ~GapWithoutProgress

\* the iterator is in use
Iterating == ci.phase \in {"running", "done"}

\* the sum of real_size over the first n fragments
RECURSIVE SumOfRealSizes(_, _)
SumOfRealSizes(datas, n) ==
    IF n = 0 THEN 0 ELSE datas[n].real_size + SumOfRealSizes(datas, n - 1)

\* the fragments that the iterator has come to
FragmentsSeen == IF ci.n <= Len(ci.datas) THEN ci.n ELSE Len(ci.datas)

\* C30 as claimed: the bytes yielded never exceed the real_size of the stream,
\* read in the widest sense as what some fragment of the stream states.
C30_WithinRealSize_Claimed ==
    Iterating => \E i \in DOMAIN ci.datas : ci.total <= ci.datas[i].real_size

\* C30: the bytes yielded for the runlist of one fragment never exceed the
\* real_size of that fragment, and the bytes yielded in all are those of the
\* zero clusters that fill the gaps plus at most the real_size of every
\* fragment that the iterator has come to.
C30_WithinRealSize ==
    Iterating =>
        /\ ci.n \in DOMAIN ci.datas => ci.fragment <= ci.datas[ci.n].real_size
        /\ ci.total <= ci.gaps + SumOfRealSizes(ci.datas, FragmentsSeen)

\* after a gap was filled, a runlist that holds more than real_size has been
\* yielded up to real_size
C30_Witness ==
    /\ ci.phase = "running"
    /\ ci.n \in DOMAIN ci.datas
    /\ ci.gaps > 0
    /\ ci.pc \in {"sparse", "read"}
    /\ ci.size = 0
    /\ ci.length = 0
    /\ ci.fragment = ci.datas[ci.n].real_size
    /\ ci.datas[ci.n].runlist[ci.r].length * ci.spc * sector_size > ci.chunk

-----------------------------------------------------------------------------
(* Properties of add_from_mft_mirror                                        *)

\* the last operation has added, replaced or removed the entry k of p
EntryChanged(p, k) ==
    \/ k \in DictKeys(pre.files[p]) /\ k \notin DictKeys(parts[p].files)
    \/ k \notin DictKeys(pre.files[p]) /\ k \in DictKeys(parts[p].files)
    \/ /\ k \in DictKeys(pre.files[p]) \cap DictKeys(parts[p].files)
       /\ DictGet(pre.files[p], k) # DictGet(parts[p].files, k)

\* the entry k of p was missing or a ghost before the last operation
MissingOrGhostBefore(p, k) ==
    \/ k \notin DictKeys(pre.files[p])
    \/ pre.heap[DictGet(pre.files[p], k)].is_ghost

\* the entries of p before or after the last operation
EntriesAround(p) == DictKeys(pre.files[p]) \cup DictKeys(parts[p].files)

\* C29: add_from_mft_mirror changes only the entries 0, 1, 2 and 3 of the
\* partition, and only those that were missing or ghost before: whatever
\* record number the records at the mirror position carry, no entry with
\* another index is added or replaced and no non-ghost entry is replaced.
C29_MirrorFrame ==
    op.kind = "mirror" =>
        \A k \in EntriesAround(op.p) :
            EntryChanged(op.p, k) => k \in 0..3 /\ MissingOrGhostBefore(op.p, k)

\* what the code does: it repairs when an entry 0..3 was missing or ghost, and
\* the file it adds is no ghost and goes to the entry of the record number
\* that the record carries; nothing is removed
MirrorAddsWhatRecordsCarry ==
    op.kind = "mirror" =>
        \A k \in EntriesAround(op.p) :
            EntryChanged(op.p, k) =>
                /\ \E i \in 0..3 : MissingOrGhostBefore(op.p, i)
                /\ k \in DictKeys(parts[op.p].files)
                /\ DictGet(parts[op.p].files, k) > Len(pre.heap)
                /\ ~heap[DictGet(parts[op.p].files, k)].is_ghost
                /\ heap[DictGet(parts[op.p].files, k)].index = k

\* the repair has replaced an entry that was no ghost and has an index above 3
MirrorReplacedFile ==
    /\ op.kind = "mirror"
    /\ \E k \in DictKeys(pre.files[op.p]) :
          /\ k > 3
          /\ ~pre.heap[DictGet(pre.files[op.p], k)].is_ghost
          /\ EntryChanged(op.p, k)

====
